---- MODULE Spec2Model ----
(***************************************************************************)
(* PlexCache: the tiering engine of src/file_operations.py as driven by    *)
(* src/plexcache_app.py.                                                   *)
(*                                                                         *)
(* A path is the sequence of its components: "/mnt/user/TV/a.mkv" is       *)
(* <<"mnt","user","TV","a.mkv">>.  The configured roots end with "/"       *)
(* (config.py, _add_trailing_slashes), so a root occurs in a path only     *)
(* where its components are followed by at least one more component.       *)
(* The filesystem is the set of the (normalised) paths at which a regular  *)
(* file exists.  The ledger ("exclude file") is the sequence of its lines. *)
(***************************************************************************)
EXTENDS Integers, Sequences, FiniteSets, TLC

(***************************************************************************)
(* Configuration (the settings file as loaded by ConfigManager).           *)
(***************************************************************************)
plex_source == <<"media">>
real_source == <<"mnt", "user">>
cache_dir == <<"mnt", "cache">>
plex_library_folders == <<"tv", "movies">>
nas_library_folders == <<"TV", "Movies">>
watchlist_toggle == TRUE
watched_move == TRUE
max_concurrent_moves_array == 1
max_concurrent_moves_cache == 2

(***************************************************************************)
(* The media library: three files on the media server, by their paths in   *)
(* the server's namespace.  No subtitle file exists beside them.           *)
(***************************************************************************)
PlexE1 == <<"media", "tv", "ShowX", "Season 1", "e01.mkv">>
PlexE2 == <<"media", "tv", "ShowX", "Season 1", "e02.mkv">>
PlexM1 == <<"media", "movies", "Heat", "heat.mkv">>
PlexFiles == {PlexE1, PlexE2, PlexM1}

(***************************************************************************)
(* Bounds of the model.                                                    *)
(***************************************************************************)
MaxRuns == 2

\* what the media server may report to a run
SessionChoices == {{}, {PlexE1}}
OnDeckChoices == {{}, {PlexE1}, {PlexE1, PlexE2}, {PlexM1}, PlexFiles}
WatchlistChoices == {{}, {PlexE2}}
WatchedChoices == {{}, {PlexE1}}

(***************************************************************************)
(* os.path and str helpers, on component sequences.                        *)
(***************************************************************************)
None == <<>>

Some(x) == <<x>>

dirname(p) == IF Len(p) = 0 THEN <<>> ELSE SubSeq(p, 1, Len(p) - 1)

basename(p) == p[Len(p)]

join(d, name) == Append(d, name)

\* s.startswith(root) for a root that ends with "/"
startswith(p, root) == Len(p) > Len(root) /\ SubSeq(p, 1, Len(root)) = root

\* old (a root ending with "/") occurs in p at component i
OccursAt(p, old, i) ==
    /\ i + Len(old) <= Len(p)
    /\ SubSeq(p, i, i + Len(old) - 1) = old

\* p.replace(old, new, 1) for roots old, new that end with "/"
replace1(p, old, new) ==
    IF \E i \in 1..Len(p) : OccursAt(p, old, i)
    THEN LET i == CHOOSE k \in 1..Len(p) :
                     /\ OccursAt(p, old, k)
                     /\ \A j \in 1..(k - 1) : ~OccursAt(p, old, j)
         IN SubSeq(p, 1, i - 1) \o new \o SubSeq(p, i + Len(old), Len(p))
    ELSE p

\* p.replace(folder, nas): every component equal to folder is replaced
replace_all(p, folder, nas) ==
    [k \in 1..Len(p) |-> IF p[k] = folder THEN nas ELSE p[k]]

RECURSIVE normpath_from(_, _, _)
normpath_from(p, k, acc) ==
    IF k > Len(p) THEN acc
    ELSE IF p[k] = "." THEN normpath_from(p, k + 1, acc)
    ELSE IF p[k] = ".."
         THEN normpath_from(p, k + 1, dirname(acc))
         ELSE normpath_from(p, k + 1, Append(acc, p[k]))

\* os.path.normpath of an absolute path
normpath(p) == normpath_from(p, 1, <<>>)

RECURSIVE CommonLen(_, _, _)
CommonLen(p, q, k) ==
    IF k < Len(p) /\ k < Len(q) /\ p[k + 1] = q[k + 1]
    THEN CommonLen(p, q, k + 1)
    ELSE k

\* os.path.relpath(p, start): ".." for each component of start that is not
\* shared, then the rest of p; "." when nothing is left
relpath(p, start) ==
    LET c == CommonLen(p, start, 0)
        r == [k \in 1..(Len(start) - c) |-> ".."] \o SubSeq(p, c + 1, Len(p))
    IN IF Len(r) = 0 THEN <<".">> ELSE r

\* a fixed enumeration of a finite set of paths (the order of list(set))
RECURSIVE SetToSeq(_)
SetToSeq(S) ==
    IF S = {} THEN <<>>
    ELSE LET x == CHOOSE y \in S : TRUE
         IN <<x>> \o SetToSeq(S \ {x})

ToSet(s) == {s[k] : k \in 1..Len(s)}

Count(s, x) == Cardinality({k \in 1..Len(s) : s[k] = x})

(***************************************************************************)
(* FilePathModifier.modify_file_paths                                      *)
(***************************************************************************)
RECURSIVE replace_first_folder(_, _)
replace_first_folder(p, j) ==
    IF j > Len(plex_library_folders) THEN p
    ELSE IF \E k \in 1..Len(p) : p[k] = plex_library_folders[j]
         THEN replace_all(p, plex_library_folders[j], nas_library_folders[j])
         ELSE replace_first_folder(p, j + 1)

modify_file_path(file_path) ==
    IF ~startswith(file_path, plex_source) THEN file_path
    ELSE replace_first_folder(replace1(file_path, plex_source, real_source), 1)

modify_file_paths(files) == [k \in 1..Len(files) |-> modify_file_path(files[k])]

(***************************************************************************)
(* SubtitleFinder.get_media_subtitles: the input list followed by the      *)
(* subtitle files found beside each file; the library holds none.          *)
(***************************************************************************)
get_media_subtitles(media_files) == media_files

(***************************************************************************)
(* The filesystem: fs is the set of paths at which a regular file exists.  *)
(***************************************************************************)
is_unraid == FALSE

isfile(p, fs) == normpath(p) \in fs

\* an existence test that never fails
exists_always(p, fs) == TRUE

exists(p, fs) == normpath(p) \in fs

\* os.remove(p): removes the file; FileNotFoundError is passed over
os_remove(p, fs) == fs \ {normpath(p)}

(***************************************************************************)
(* FileFilter                                                              *)
(***************************************************************************)
\* the array-tier path of a file: file.replace("/mnt/user/", "/mnt/user0/", 1)
\* on Unraid, the file's own path otherwise
array_file_of(file) ==
    IF is_unraid THEN replace1(file, <<"mnt", "user">>, <<"mnt", "user0">>)
    ELSE file

\* FileFilter._get_cache_paths: <<cache_path, cache_file_name>>
_get_cache_paths(file) ==
    LET cache_path == replace1(dirname(file), real_source, cache_dir)
    IN <<cache_path, join(cache_path, basename(file))>>

\* _should_add_to_array without its first test (file in media_to_cache)
_should_add_to_array_unlisted(file, cache_file_name, media_to_cache, fs) ==
    IF isfile(array_file_of(file), fs)
    THEN [add |-> FALSE, fs |-> os_remove(cache_file_name, fs)]
    ELSE [add |-> TRUE, fs |-> fs]

\* an array-direction test that only looks at the array
_should_add_to_array_anyway(file, cache_file_name, media_to_cache, fs) ==
    [add |-> ~isfile(array_file_of(file), fs), fs |-> fs]

\* FileFilter._should_add_to_array: the answer and the filesystem it leaves
_should_add_to_array(file, cache_file_name, media_to_cache, fs) ==
    IF file \in ToSet(media_to_cache) THEN [add |-> FALSE, fs |-> fs]
    ELSE IF isfile(array_file_of(file), fs)
         THEN [add |-> FALSE, fs |-> os_remove(cache_file_name, fs)]
         ELSE [add |-> TRUE, fs |-> fs]

\* a cache-direction test that leaves the duplicate on the array
_should_add_to_cache_keep(file, cache_file_name, fs) ==
    [add |-> ~isfile(cache_file_name, fs), fs |-> fs]

\* FileFilter._should_add_to_cache: the answer and the filesystem it leaves
_should_add_to_cache(file, cache_file_name, fs) ==
    IF isfile(cache_file_name, fs) /\ isfile(array_file_of(file), fs)
    THEN [add |-> FALSE, fs |-> os_remove(array_file_of(file), fs)]
    ELSE [add |-> ~isfile(cache_file_name, fs), fs |-> fs]

RECURSIVE filter_loop(_, _, _, _, _, _, _, _)
filter_loop(files, k, destination, media_to_cache, files_to_skip, processed_files, media_to, fs) ==
    IF k > Len(files) THEN [media_to |-> media_to, fs |-> fs]
    ELSE LET file == files[k] IN
         IF file \in processed_files \/ file \in files_to_skip
         THEN filter_loop(files, k + 1, destination, media_to_cache,
                          files_to_skip, processed_files, media_to, fs)
         ELSE LET cache_file_name == _get_cache_paths(file)[2]
                  r == IF destination = "array"
                       THEN _should_add_to_array(file, cache_file_name,
                                                 media_to_cache, fs)
                       ELSE IF destination = "cache"
                       THEN _should_add_to_cache(file, cache_file_name, fs)
                       ELSE [add |-> FALSE, fs |-> fs]
              IN filter_loop(files, k + 1, destination, media_to_cache,
                             files_to_skip, processed_files \cup {file},
                             IF r.add THEN Append(media_to, file) ELSE media_to,
                             r.fs)

\* a filter that does not look at the skip set
filter_files_skipblind(files, destination, media_to_cache, files_to_skip, fs) ==
    filter_loop(files, 1, destination, media_to_cache, {}, {}, <<>>, fs)

\* FileFilter.filter_files: the filtered list and the filesystem it leaves
filter_files(files, destination, media_to_cache, files_to_skip, fs) ==
    filter_loop(files, 1, destination, media_to_cache, files_to_skip,
                {}, <<>>, fs)

\* the folder names of the library that the season/specials patterns match:
\* ^(Season|Series)\s*\d+$, ^\d+$, ^Specials$
IsSeasonFolder(part) == part \in {"Season 1", "Season 2", "Specials", "1"}

RECURSIVE extract_from(_, _)
extract_from(path_parts, i) ==
    IF i > Len(path_parts) THEN None
    ELSE IF IsSeasonFolder(path_parts[i])
         THEN IF i > 1 THEN Some(path_parts[i - 1]) ELSE None
         ELSE extract_from(path_parts, i + 1)

\* FileFilter._extract_show_name: None, or Some(name).  The split of an
\* absolute path starts with the empty string before the first "/"
_extract_show_name(file_path) ==
    extract_from(<<"">> \o normpath(file_path), 1)

\* a reconciliation that takes no show for needed
needed_shows_none(items) == {}

needed_shows_of(items) ==
    {_extract_show_name(item)[1] : item \in {x \in items : _extract_show_name(x) # None}}

RECURSIVE move_back_loop(_, _, _, _, _, _)
move_back_loop(cache_files, k, needed_shows, fs, files_to_move_back, cache_paths_to_remove) ==
    IF k > Len(cache_files)
    THEN [files_to_move_back |-> files_to_move_back,
          cache_paths_to_remove |-> cache_paths_to_remove]
    ELSE LET cache_file == cache_files[k]
             show_name == _extract_show_name(cache_file)
         IN IF ~exists(cache_file, fs)
            THEN move_back_loop(cache_files, k + 1, needed_shows, fs,
                                files_to_move_back,
                                Append(cache_paths_to_remove, cache_file))
            ELSE IF show_name = None \/ show_name[1] \in needed_shows
            THEN move_back_loop(cache_files, k + 1, needed_shows, fs,
                                files_to_move_back, cache_paths_to_remove)
            ELSE move_back_loop(cache_files, k + 1, needed_shows, fs,
                                Append(files_to_move_back,
                                       replace1(cache_file, cache_dir, real_source)),
                                Append(cache_paths_to_remove, cache_file))

\* line.strip(): a line is a path, which trailing white space may follow
strip(line) ==
    IF line # <<>> /\ line[Len(line)] = " " THEN SubSeq(line, 1, Len(line) - 1) ELSE line

RECURSIVE strip_all(_)
strip_all(lines) ==
    IF lines = <<>> THEN <<>> ELSE <<strip(Head(lines))>> \o strip_all(Tail(lines))

\* [line.strip() for line in f if line.strip()]
read_exclude_lines(lines) == SelectSeq(strip_all(lines), LAMBDA l : l # <<>>)

\* FileFilter.get_files_to_move_back_to_array, reading the ledger
get_files_to_move_back_to_array(current_ondeck_items, current_watchlist_items, has_ledger, ledger_lines, fs) ==
    IF ~has_ledger
    THEN [files_to_move_back |-> <<>>, cache_paths_to_remove |-> <<>>]
    ELSE move_back_loop(read_exclude_lines(ledger_lines), 1,
                        needed_shows_of(current_ondeck_items \cup current_watchlist_items),
                        fs, <<>>, <<>>)

\* a rewrite that keeps one line of each path
remove_files_keep_one(cache_paths_to_remove, has_ledger, ledger_lines, io) ==
    IF ~has_ledger \/ io.step # "ok" THEN [ok |-> FALSE, lines |-> ledger_lines]
    ELSE [ok |-> TRUE,
          lines |-> SetToSeq(ToSet(read_exclude_lines(ledger_lines))
                                \ ToSet(cache_paths_to_remove))]

\* every step of the rewrite succeeds
IoOk == [step |-> "ok", written |-> 0]

\* FileFilter.remove_files_from_exclude_list: the result and the ledger left.
\* io: the step that raises, if one does ("read": the file cannot be opened
\* or read; "open": it cannot be opened for writing; "write": a write fails
\* after io.written lines, the file having been truncated)
remove_files_from_exclude_list(cache_paths_to_remove, has_ledger, ledger_lines, io) ==
    LET current_files == read_exclude_lines(ledger_lines)
        updated_files == SelectSeq(current_files,
                                   LAMBDA f : f \notin ToSet(cache_paths_to_remove))
    IN  IF ~has_ledger THEN [ok |-> FALSE, lines |-> ledger_lines]
        ELSE IF io.step \in {"read", "open"} THEN [ok |-> FALSE, lines |-> ledger_lines]
        ELSE IF io.step = "write" /\ io.written < Len(updated_files)
        THEN [ok |-> FALSE, lines |-> SubSeq(updated_files, 1, io.written)]
        ELSE [ok |-> TRUE, lines |-> updated_files]

(***************************************************************************)
(* FileMover                                                               *)
(***************************************************************************)
\* FileMover._get_paths: user_path, cache_path, cache_file_name, user_file_name
_get_paths(file_to_move) ==
    LET user_path == dirname(file_to_move)
        relative_path == relpath(user_path, real_source)
        cache_path == cache_dir \o relative_path
        cache_file_name == join(cache_path, basename(file_to_move))
        user_path2 == IF is_unraid
                      THEN replace1(user_path, <<"mnt", "user">>, <<"mnt", "user0">>)
                      ELSE user_path
    IN [user_path |-> user_path2, cache_path |-> cache_path,
        cache_file_name |-> cache_file_name,
        user_file_name |-> join(user_path2, basename(file_to_move))]


\* a command generator that does not look at the cache tier before it
\* proposes a move toward the cache
_get_move_command_unchecked(destination, p, debug, fs) ==
    IF destination = "array"
    THEN [mkdir |-> IF debug THEN None ELSE Some(p.user_path),
          move |-> IF isfile(p.cache_file_name, fs)
                   THEN Some([src |-> p.cache_file_name, dest |-> p.user_path,
                              cache_file_name |-> p.cache_file_name])
                   ELSE None]
    ELSE [mkdir |-> IF debug THEN None ELSE Some(p.cache_path),
          move |-> Some([src |-> p.user_file_name, dest |-> p.cache_path,
                         cache_file_name |-> p.cache_file_name])]

\* a command generator that creates the directories in dry-run too
_get_move_command_mkdir(destination, p, debug, fs) ==
    IF destination = "array"
    THEN [mkdir |-> Some(p.user_path),
          move |-> IF isfile(p.cache_file_name, fs)
                   THEN Some([src |-> p.cache_file_name, dest |-> p.user_path,
                              cache_file_name |-> p.cache_file_name])
                   ELSE None]
    ELSE [mkdir |-> Some(p.cache_path),
          move |-> IF ~isfile(p.cache_file_name, fs)
                   THEN Some([src |-> p.user_file_name, dest |-> p.cache_path,
                              cache_file_name |-> p.cache_file_name])
                   ELSE None]

\* FileMover._get_move_command: the command (None when there is nothing to
\* move) and the directory it asks file_utils to create (None in dry-run)
_get_move_command(destination, p, debug, fs) ==
    IF destination = "array"
    THEN [mkdir |-> IF debug THEN None ELSE Some(p.user_path),
          move |-> IF isfile(p.cache_file_name, fs)
                   THEN Some([src |-> p.cache_file_name, dest |-> p.user_path,
                              cache_file_name |-> p.cache_file_name])
                   ELSE None]
    ELSE IF destination = "cache"
    THEN [mkdir |-> IF debug THEN None ELSE Some(p.cache_path),
          move |-> IF ~isfile(p.cache_file_name, fs)
                   THEN Some([src |-> p.user_file_name, dest |-> p.cache_path,
                              cache_file_name |-> p.cache_file_name])
                   ELSE None]
    ELSE [mkdir |-> None, move |-> None]

RECURSIVE move_loop(_, _, _, _, _, _, _, _)
move_loop(files, k, destination, debug, fs, processed_files, move_commands, made) ==
    IF k > Len(files) THEN [move_commands |-> move_commands, mkdirs |-> made]
    ELSE IF files[k] \in processed_files
    THEN move_loop(files, k + 1, destination, debug, fs, processed_files,
                   move_commands, made)
    ELSE LET c == _get_move_command(destination, _get_paths(files[k]), debug, fs)
         IN move_loop(files, k + 1, destination, debug, fs,
                      processed_files \cup {files[k]},
                      move_commands \o c.move, made \cup ToSet(c.mkdir))

\* FileMover.move_media_files up to the execution of the commands: the move
\* commands in order and the directories created on the way
move_media_files(files, destination, debug, fs) ==
    move_loop(files, 1, destination, debug, fs, {}, <<>>, {})

\* FileMover._execute_move_commands: the size of the worker pool
max_concurrent_moves(destination) ==
    IF destination = "array" THEN max_concurrent_moves_array
    ELSE max_concurrent_moves_cache

\* file_utils.move_file(src, dest): the file src is moved into directory dest
move_file(src, dest, fs) == (fs \ {normpath(src)}) \cup {normpath(join(dest, basename(src)))}

(***************************************************************************)
(* State                                                                   *)
(***************************************************************************)
VARIABLES
    disk,                \* the paths at which a file exists
    ledger_present,      \* the exclude file exists
    ledger,              \* the lines of the exclude file
    pc,                  \* the phase of the current run
    runs,                \* the runs started so far
    self_debug,          \* PlexCacheApp.debug / FileMover.debug
    self_files_to_skip,  \* PlexCacheApp.files_to_skip
    self_ondeck_items,   \* PlexCacheApp.ondeck_items
    watchlist_items,     \* the result of _process_watchlist, as in its snapshot
    watched_items,       \* the watched paths _process_watched_media added
    self_media_to_cache, \* PlexCacheApp.media_to_cache
    self_media_to_array, \* PlexCacheApp.media_to_array
    last_move_back,      \* files_to_move_back of the run's reconciliation
    last_to_remove,      \* cache_paths_to_remove of the run's reconciliation
    pass_dest,           \* the destination of the move pass
    pass_files,          \* the filtered list the move pass was given
    queue,               \* move commands not yet taken by a worker
    workers,             \* the busy workers of the pool
    errors,              \* the moves of the pass that returned 1
    after_pass,          \* where the run continues when the pool is done
    pass_log,            \* per move pass of the run: destination, commands,
                         \* error count, disk and ledger when it started
    mkdirs,              \* the directories the run asked file_utils to create
    moved,               \* the move commands of the run whose move_file succeeded
    disk0,               \* disk when the run started
    ledger0,             \* <<ledger_present, ledger>> when the run started
    snap_file,           \* the watchlist snapshot file
    snap0,               \* the watchlist snapshot file when the run started
    skip_cache,          \* PlexCacheApp.skip_cache (--skip-cache)
    connected,           \* system_detector.is_connected() of the run
    fetches,             \* the upstream watchlist fetches of the run
    ledger_readable,     \* the exclude file can be opened and read
    cleanup_arg,         \* the cache_dir a CacheCleanup is constructed with
    cleanup_pc,          \* the progress of that CacheCleanup
    dirs_touched,        \* the directories it has listed, walked or removed
    dirs,                \* the directories below the cache directory
    dir_files,           \* those of them that hold a file
    exit_status,         \* the exit status of the process, "none" while it runs
    shortfalls,          \* the destinations whose lack of space the run logged
    crashed,             \* the run that was killed, if one was
    phase_log,           \* the phases of the run that have been entered, in order
    modify_call,         \* a call of modify_file_paths: its tables, input and result
    watched_snap,        \* the watched snapshot file of a run of _process_watched_media
    last_fetch,          \* what the media server returned to the last refresh
    paths_call,          \* the cache paths computed for one file, and the way back
    config_state         \* firststart of the settings file and ConfigManager.debug

vars == <<disk, ledger_present, ledger, pc, runs, self_debug, self_files_to_skip,
          self_ondeck_items, watchlist_items, watched_items, self_media_to_cache,
          self_media_to_array, last_move_back, last_to_remove, pass_dest,
          pass_files, queue, workers, errors, after_pass, pass_log, mkdirs, moved,
          disk0, ledger0, snap_file, snap0, skip_cache, connected, fetches,
          ledger_readable, cleanup_arg, cleanup_pc, dirs_touched, dirs, dir_files,
          exit_status,
          shortfalls, crashed, phase_log, modify_call, watched_snap, last_fetch,
          paths_call, config_state>>

env_vars == <<disk, ledger_present, ledger>>

snapshot_vars == <<snap_file, snap0, skip_cache, connected, fetches, ledger_readable>>

cleanup_vars == <<cleanup_arg, cleanup_pc, dirs_touched, dirs, dir_files>>

exit_vars == <<exit_status, shortfalls>>

\* the calls of single functions
call_vars == <<modify_call, watched_snap, last_fetch, paths_call, config_state>>

aux_vars == <<snapshot_vars, cleanup_vars, exit_vars, crashed, phase_log, call_vars>>

run_vars == <<self_debug, self_files_to_skip, self_ondeck_items, watchlist_items,
              watched_items, self_media_to_cache, self_media_to_array, disk0, ledger0>>

reconcile_vars == <<last_move_back, last_to_remove>>

pool_vars == <<pass_dest, pass_files, queue, workers, errors, after_pass, pass_log>>

RealFiles == {modify_file_path(f) : f \in PlexFiles}

CacheFiles == {_get_cache_paths(f)[2] : f \in RealFiles}

\* no snapshot file
AbsentSnapshot == [kind |-> "absent", media |-> {}, old |-> FALSE]

\* no watchlist snapshot yet, runs started with --skip-cache on a connected
\* host, a readable exclude file
SnapshotIdle ==
    /\ snap_file = AbsentSnapshot
    /\ snap0 = AbsentSnapshot
    /\ skip_cache = TRUE
    /\ connected = TRUE
    /\ fetches = <<>>
    /\ ledger_readable = TRUE

\* no CacheCleanup under construction
CleanupIdle ==
    /\ cleanup_arg = <<>>
    /\ cleanup_pc = "none"
    /\ dirs_touched = {}
    /\ dirs = {}
    /\ dir_files = {}

\* no run has been killed
NoCrash == [stage |-> "none", orphans |-> {}, ondeck |-> {}, watchlist |-> {}]

\* no function has been called on its own
NoCall == [plex_source |-> <<>>, real_source |-> <<>>, plex_folders |-> <<>>,
           nas_folders |-> <<>>, files |-> <<>>, state |-> "none", result |-> <<>>,
           again |-> [state |-> "none", result |-> <<>>]]

\* a settings file with firststart false, as the setup leaves it
NoFirstStart == [firststart |-> FALSE, debug |-> FALSE]

\* the debug key of the settings file
settings_debug == FALSE

\* ConfigManager._process_first_start and _save_updated_config: the debug
\* flag of the ConfigManager, and firststart gone from the settings file
_process_first_start(firststart) ==
    [firststart |-> FALSE, debug |-> IF firststart THEN TRUE ELSE settings_debug]

\* no path has been mapped on its own
NoPaths == [file |-> <<>>, state |-> "none", filter_name |-> <<>>, mover_name |-> <<>>,
            ledger_line |-> <<>>, array_file |-> <<>>]

\* no refresh has fetched anything
NoFetch == [kind |-> "none", media |-> {}]

\* the process has not exited and no run was killed
ExitIdle ==
    /\ exit_status = "none"
    /\ shortfalls = {}
    /\ crashed = NoCrash
    /\ phase_log = <<>>
    /\ modify_call = NoCall
    /\ watched_snap = AbsentSnapshot
    /\ last_fetch = NoFetch
    /\ paths_call = NoPaths
    /\ config_state = NoFirstStart

NoRun ==
    /\ self_debug = FALSE
    /\ self_files_to_skip = {}
    /\ self_ondeck_items = {}
    /\ watchlist_items = {}
    /\ watched_items = <<>>
    /\ self_media_to_cache = <<>>
    /\ self_media_to_array = <<>>
    /\ last_move_back = <<>>
    /\ last_to_remove = <<>>
    /\ pass_dest = "none"
    /\ pass_files = <<>>
    /\ queue = <<>>
    /\ workers = {}
    /\ errors = 0
    /\ after_pass = "none"
    /\ pass_log = <<>>
    /\ mkdirs = {}
    /\ moved = {}

\* the same, of the next state
ResetRun ==
    /\ self_debug' = FALSE
    /\ self_files_to_skip' = {}
    /\ self_ondeck_items' = {}
    /\ watchlist_items' = {}
    /\ watched_items' = <<>>
    /\ self_media_to_cache' = <<>>
    /\ self_media_to_array' = <<>>
    /\ last_move_back' = <<>>
    /\ last_to_remove' = <<>>
    /\ pass_dest' = "none"
    /\ pass_files' = <<>>
    /\ queue' = <<>>
    /\ workers' = {}
    /\ errors' = 0
    /\ after_pass' = "none"
    /\ pass_log' = <<>>
    /\ mkdirs' = {}
    /\ moved' = {}

\* a fresh installation: every file of the library is on the array, the
\* cache tier is empty and no exclude file exists yet
Init ==
    /\ disk = {array_file_of(f) : f \in RealFiles}
    /\ ledger_present = FALSE
    /\ ledger = <<>>
    /\ pc = "idle"
    /\ runs = 0
    /\ disk0 = disk
    /\ ledger0 = <<ledger_present, ledger>>
    /\ SnapshotIdle
    /\ CleanupIdle
    /\ ExitIdle
    /\ NoRun

(***************************************************************************)
(* The watchlist snapshot                                                  *)
(***************************************************************************)
\* A snapshot file is [kind, media, old]: kind is what json.load finds in it
\* ("dict": an object with a list under "media"; "list": a bare list;
\* "garbage": not JSON; "scalar": a JSON number, string or null;
\* "media_str": an object with a string under "media"; "media_null": an
\* object with null under "media"), media the paths of a "dict" or "list",
\* old whether its mtime is further back than the expiry window.

\* what set() makes of the string under "media": its characters
CharPaths == {<<"a">>, <<"b">>}

\* the file CacheManager.save_media_to_cache writes
save_media_to_cache(media_list) == [kind |-> "dict", media |-> media_list, old |-> FALSE]

\* CacheManager.load_media_from_cache: the set it returns, whether it raised,
\* and the file it leaves
load_media_from_cache(f) ==
    CASE f.kind = "absent" -> [media |-> {}, raised |-> FALSE, file |-> f]
      [] f.kind \in {"dict", "list"} -> [media |-> f.media, raised |-> FALSE, file |-> f]
      [] f.kind = "garbage" -> [media |-> {}, raised |-> FALSE, file |-> save_media_to_cache({})]
      [] f.kind = "scalar" -> [media |-> {}, raised |-> FALSE, file |-> f]
      [] f.kind = "media_str" -> [media |-> CharPaths, raised |-> FALSE, file |-> f]
      [] f.kind = "media_null" -> [media |-> {}, raised |-> TRUE, file |-> f]

\* an expiry test that ignores the age of the file
_is_cache_expired_ageless(f, skip, debug) == skip \/ debug \/ f.kind = "absent"

\* PlexCacheApp._is_cache_expired
_is_cache_expired(f, skip, debug) == skip \/ debug \/ f.kind = "absent" \/ f.old

\* what _process_watchlist adds to the fetched paths before saving them
watchlist_result_set(fetched_watchlist) ==
    LET modified_items == modify_file_paths(SetToSeq(fetched_watchlist))
    IN  fetched_watchlist \cup ToSet(modified_items)
            \cup ToSet(get_media_subtitles(modified_items))

\* PlexCacheApp._process_watchlist: the set it returns, the snapshot file it
\* leaves and the upstream fetches it made.  unlink_ok: the old file could be
\* deleted; outcome: get_watchlist_media returned ("ok") or raised ("raises")
_process_watchlist(f, skip, debug, is_connected, unlink_ok, outcome, fetched_watchlist) ==
    LET l == load_media_from_cache(f)
        unlinked == IF l.file.kind # "absent" /\ unlink_ok THEN AbsentSnapshot ELSE l.file
        result_set == watchlist_result_set(fetched_watchlist)
    IN  IF l.raised
        THEN [result_set |-> {}, file |-> l.file, fetches |-> <<>>]
        ELSE IF is_connected /\ _is_cache_expired(l.file, skip, debug)
             THEN IF outcome = "raises"
                  THEN [result_set |-> {}, file |-> unlinked, fetches |-> <<"raises">>]
                  ELSE [result_set |-> result_set, file |-> save_media_to_cache(result_set),
                        fetches |-> <<"ok">>]
             ELSE [result_set |-> l.media, file |-> l.file, fetches |-> <<>>]

(***************************************************************************)
(* PlexCacheApp: one run                                                   *)
(***************************************************************************)
\* PlexCacheApp._process_media up to the final media_to_cache list (phases
\* 6 to 8 of run): the skip list of the active sessions, the on-deck items,
\* the watchlist result and the watched list, from what the media server
\* reports, all in the server's path namespace
StartRun(debug, sessions, ondeck_media, fetched_watchlist, fetched_watched) ==
    /\ pc = "idle"
    /\ runs < MaxRuns
    /\ runs' = runs + 1
    /\ self_debug' = debug
    /\ self_files_to_skip' = sessions
    /\ LET modified_ondeck == modify_file_paths(SetToSeq(ondeck_media))
           ondeck_items == ToSet(modified_ondeck)
           ondeck_with_subtitles == get_media_subtitles(SetToSeq(ondeck_items))
           w == _process_watchlist(snap_file, skip_cache, debug, connected, TRUE,
                                   "ok", fetched_watchlist)
           watchlist == IF watchlist_toggle THEN w.result_set ELSE {}
           modified_watched == modify_file_paths(SetToSeq(fetched_watched))
           media_to_array == modified_watched \o get_media_subtitles(modified_watched)
           modified_paths_set == ondeck_items \cup ToSet(ondeck_with_subtitles)
                                    \cup watchlist
       IN /\ self_ondeck_items' = ondeck_items
          /\ watchlist_items' = watchlist
          /\ watched_items' = IF watched_move THEN media_to_array ELSE <<>>
          /\ self_media_to_array' = IF watched_move THEN media_to_array ELSE <<>>
          /\ self_media_to_cache' = modify_file_paths(SetToSeq(modified_paths_set))
          /\ snap_file' = IF watchlist_toggle THEN w.file ELSE snap_file
          /\ fetches' = IF watchlist_toggle THEN w.fetches ELSE <<>>
          /\ crashed' = IF crashed.stage = "crashed"
                         THEN IF ~debug /\ ondeck_items = crashed.ondeck
                                        /\ watchlist = crashed.watchlist
                              THEN [crashed EXCEPT !.stage = "rerun"]
                              ELSE [NoCrash EXCEPT !.stage = "other"]
                         ELSE crashed
    /\ config_state' = _process_first_start(config_state.firststart)
    /\ snap0' = snap_file
    /\ disk0' = disk
    /\ ledger0' = <<ledger_present, ledger>>
    /\ pc' = "reconcile"
    /\ UNCHANGED <<env_vars, reconcile_vars, pool_vars, mkdirs, moved, skip_cache,
                   connected, ledger_readable, cleanup_vars, exit_vars, phase_log,
                   modify_call, watched_snap, last_fetch, paths_call>>

\* PlexCacheApp._check_files_to_move_back_to_array: what it leaves in
\* media_to_array and in the exclude file, and what the reconciliation returned
_check_files_to_move_back_to_array(ondeck_items, watchlist, media_to_array, has_ledger, ledger_lines, fs) ==
    LET current_watchlist_items ==
            IF watchlist_toggle
            THEN ToSet(modify_file_paths(SetToSeq(watchlist)))
            ELSE {}
        r == get_files_to_move_back_to_array(ondeck_items, current_watchlist_items,
                                             has_ledger, ledger_lines, fs)
    IN IF r.files_to_move_back # <<>>
       THEN [media_to_array |-> media_to_array \o r.files_to_move_back,
             lines |-> remove_files_from_exclude_list(r.cache_paths_to_remove,
                                                      has_ledger, ledger_lines, IoOk).lines,
             r |-> r]
       ELSE [media_to_array |-> media_to_array, lines |-> ledger_lines, r |-> r]

\* a run that fills the cache before it moves anything back
next_phase_cache_first(phase) ==
    CASE phase = "reconcile" -> "cache_pass"
      [] phase = "cache" -> IF watched_move THEN "array_pass" ELSE "finish"
      [] phase = "array" -> "finish"

\* PlexCacheApp.run and _move_files: what follows the reconciliation at the
\* end of _process_media, the array pass and the cache pass
next_phase(phase) ==
    CASE phase = "reconcile" -> IF watched_move THEN "array_pass" ELSE "cache_pass"
      [] phase = "array" -> "cache_pass"
      [] phase = "cache" -> "finish"

CheckFilesToMoveBack ==
    /\ pc = "reconcile"
    /\ LET l == IF watchlist_toggle
                THEN load_media_from_cache(snap_file)
                ELSE [media |-> {}, raised |-> FALSE, file |-> snap_file]
           c == IF l.raised \/ (ledger_present /\ ~ledger_readable)
                THEN [media_to_array |-> self_media_to_array, lines |-> ledger,
                      r |-> [files_to_move_back |-> <<>>, cache_paths_to_remove |-> <<>>]]
                ELSE _check_files_to_move_back_to_array(self_ondeck_items, l.media,
                         self_media_to_array, ledger_present, ledger, disk)
       IN /\ self_media_to_array' = c.media_to_array
          /\ ledger' = c.lines
          /\ last_move_back' = c.r.files_to_move_back
          /\ last_to_remove' = c.r.cache_paths_to_remove
          /\ snap_file' = l.file
    /\ phase_log' = Append(phase_log, "reconcile")
    /\ pc' = next_phase("reconcile")
    /\ UNCHANGED <<disk, ledger_present, runs, self_debug, self_files_to_skip,
                   self_ondeck_items, watchlist_items, watched_items,
                   self_media_to_cache, disk0, ledger0, pool_vars, mkdirs, moved,
                   snap0, skip_cache, connected, fetches, ledger_readable,
                   cleanup_vars, exit_vars, crashed, call_vars>>

\* file_utils.get_total_size_of_files against file_utils.get_free_space: the
\* total is zero, fits the free space of the destination, or exceeds it
SizeOutcomes(media_files_filtered) ==
    IF media_files_filtered = <<>> THEN {"zero"} ELSE {"zero", "fits", "toobig"}

\* FileMover._execute_move_commands: in dry-run the commands are only logged;
\* otherwise they are handed to a pool of max_concurrent_moves workers
StartPool(destination, files, move_commands, next_pc) ==
    /\ pass_dest' = destination
    /\ pass_files' = files
    /\ errors' = 0
    /\ workers' = {}
    /\ after_pass' = next_pc
    /\ pass_log' = Append(pass_log, [dest |-> destination, commands |-> move_commands,
                                     errors |-> 0, disk_before |-> disk',
                                     ledger_before |-> <<ledger_present, ledger>>])
    /\ IF self_debug
       THEN queue' = <<>> /\ pc' = next_pc
       ELSE queue' = move_commands /\ pc' = "moving"

\* a run that never exits for lack of space
exits_never(size, debug) == FALSE

\* sys.exit("Not enough space on ... drive."): the batch is larger than the
\* free space and the run is not a dry run
exits_on_shortfall(size, debug) == size = "toobig" /\ ~debug

\* PlexCacheApp._check_free_space_and_move_files, up to the start of the pool;
\* an exit with a message ends the process with status 1, and in a dry run the
\* lack of space is only logged
_check_free_space_and_move_files(media_files, destination, next_pc) ==
    LET f == filter_files(media_files, destination, self_media_to_cache,
                          self_files_to_skip, disk)
    IN \E size \in SizeOutcomes(f.media_to) :
        /\ disk' = f.fs
        /\ IF size = "zero"
           THEN /\ pc' = next_pc
                /\ UNCHANGED <<pool_vars, mkdirs>>
           ELSE IF exits_on_shortfall(size, self_debug)
           THEN /\ pc' = "exited"
                /\ UNCHANGED <<pool_vars, mkdirs>>
           ELSE LET m == move_media_files(f.media_to, destination, self_debug, f.fs)
                IN /\ mkdirs' = mkdirs \cup m.mkdirs
                   /\ pass_dest' = destination
                   /\ pass_files' = f.media_to
                   /\ StartPool(destination, f.media_to, m.move_commands, next_pc)
        /\ exit_status' = IF exits_on_shortfall(size, self_debug) THEN "1" ELSE exit_status
        /\ shortfalls' = IF size = "toobig" THEN shortfalls \cup {destination} ELSE shortfalls
        /\ phase_log' = Append(phase_log, destination)
        /\ UNCHANGED <<ledger_present, ledger, runs, run_vars, reconcile_vars, moved,
                       snapshot_vars, cleanup_vars, crashed, call_vars>>

\* PlexCacheApp._move_files: the array pass (watched_move is on)
ArrayPass ==
    /\ pc = "array_pass"
    /\ _check_free_space_and_move_files(self_media_to_array, "array", next_phase("array"))

\* PlexCacheApp._move_files: the cache pass
CachePass ==
    /\ pc = "cache_pass"
    /\ _check_free_space_and_move_files(self_media_to_cache, "cache", next_phase("cache"))

(***************************************************************************)
(* FileMover._execute_move_commands: the pool of max_concurrent_moves      *)
(* workers, each running _move_file on the next command                    *)
(***************************************************************************)
\* a pool that starts one thread per command
PoolUnbounded == TRUE

PoolHasRoom == Cardinality(workers) < max_concurrent_moves(pass_dest)

\* a free worker takes the next command and calls file_utils.move_file
StartMove ==
    /\ pc = "moving"
    /\ queue # <<>>
    /\ PoolHasRoom
    /\ workers' = workers \cup {[cmd |-> Head(queue), stage |-> "moving"]}
    /\ queue' = Tail(queue)
    /\ UNCHANGED <<aux_vars, env_vars, pc, runs, run_vars, reconcile_vars, pass_dest,
                   pass_files, errors, after_pass, pass_log, mkdirs, moved>>

\* a worker that goes on to the exclude file whatever the direction
AfterMoveAnyDirection(w) ==
    (workers \ {w}) \cup {[cmd |-> w.cmd, stage |-> "append"]}

\* a worker that goes on to the exclude file after a move toward the array
AfterMoveTowardArray(w) ==
    IF pass_dest = "array"
    THEN (workers \ {w}) \cup {[cmd |-> w.cmd, stage |-> "append"]}
    ELSE workers \ {w}

\* FileMover._move_file: what follows a successful move_file
AfterMove(w) ==
    IF pass_dest = "cache"
    THEN (workers \ {w}) \cup {[cmd |-> w.cmd, stage |-> "append"]}
    ELSE workers \ {w}

\* move_file returns: the file is at its destination
MoveDone(w) ==
    /\ pc = "moving"
    /\ w \in workers
    /\ w.stage = "moving"
    /\ isfile(w.cmd.src, disk)
    /\ disk' = move_file(w.cmd.src, w.cmd.dest, disk)
    /\ moved' = moved \cup {<<pass_dest, w.cmd>>}
    /\ workers' = AfterMove(w)
    /\ UNCHANGED <<aux_vars, ledger_present, ledger, pc, runs, run_vars, reconcile_vars,
                   pass_dest, pass_files, queue, errors, after_pass, pass_log, mkdirs>>

\* a failure that cancels the commands still waiting
MoveFailedAborts(w) ==
    /\ pc = "moving"
    /\ w \in workers
    /\ w.stage = "moving"
    /\ workers' = workers \ {w}
    /\ queue' = <<>>
    /\ errors' = errors + 1
    /\ pass_log' = [pass_log EXCEPT ![Len(pass_log)].errors = @ + 1]
    /\ UNCHANGED <<aux_vars, env_vars, pc, runs, run_vars, reconcile_vars, pass_dest,
                   pass_files, after_pass, mkdirs, moved>>

\* move_file raises (the source is missing, or an I/O error): _move_file
\* logs the error and returns 1
MoveFailed(w) ==
    /\ pc = "moving"
    /\ w \in workers
    /\ w.stage = "moving"
    /\ workers' = workers \ {w}
    /\ errors' = errors + 1
    /\ pass_log' = [pass_log EXCEPT ![Len(pass_log)].errors = @ + 1]
    /\ UNCHANGED <<aux_vars, env_vars, pc, runs, run_vars, reconcile_vars, pass_dest,
                   pass_files, queue, after_pass, mkdirs, moved>>

\* a lock that is never held
LockAlwaysFree == TRUE

\* FileMover._exclude_file_lock is free: no worker is between opening and
\* closing the exclude file
ExcludeFileLockFree == ~\E v \in workers : v.stage = "open"

\* FileMover._move_file: the worker takes the lock and opens the exclude
\* file for append
OpenExcludeFile(w) ==
    /\ pc = "moving"
    /\ w \in workers
    /\ w.stage = "append"
    /\ ExcludeFileLockFree
    /\ workers' = (workers \ {w}) \cup {[cmd |-> w.cmd, stage |-> "open"]}
    /\ UNCHANGED <<aux_vars, env_vars, pc, runs, run_vars, reconcile_vars, pass_dest,
                   pass_files, queue, errors, after_pass, pass_log, mkdirs, moved>>

\* FileMover._move_file: the line is written, the file closed and the lock
\* released; the worker returns 0
AppendToExcludeFile(w) ==
    /\ pc = "moving"
    /\ w \in workers
    /\ w.stage = "open"
    /\ ledger' = Append(ledger, w.cmd.cache_file_name)
    /\ ledger_present' = TRUE
    /\ workers' = workers \ {w}
    /\ UNCHANGED <<aux_vars, disk, pc, runs, run_vars, reconcile_vars, pass_dest, pass_files,
                   queue, errors, after_pass, pass_log, mkdirs, moved>>

\* every command has run: the pool is shut down and the pass returns
PassDone ==
    /\ pc = "moving"
    /\ queue = <<>>
    /\ workers = {}
    /\ pc' = after_pass
    /\ UNCHANGED <<aux_vars, env_vars, runs, run_vars, reconcile_vars, pool_vars, mkdirs, moved>>

\* PlexCacheApp._finish: the run is complete
Finish ==
    /\ pc = "finish"
    /\ pc' = "idle"
    /\ disk0' = disk
    /\ ledger0' = <<ledger_present, ledger>>
    /\ ResetRun
    /\ snap0' = snap_file
    /\ fetches' = <<>>
    /\ shortfalls' = {}
    /\ phase_log' = <<>>
    /\ crashed' = IF crashed.stage = "rerun"
                  THEN [NoCrash EXCEPT !.stage = "recovered", !.orphans = crashed.orphans]
                  ELSE crashed
    /\ UNCHANGED <<env_vars, runs, snap_file, skip_cache, connected, ledger_readable,
                   cleanup_vars, exit_status, call_vars>>

\* the workers whose file is at its cache path and whose line is not yet in
\* the exclude file
BetweenMoveAndAppend == {w \in workers : w.stage \in {"append", "open"}}

\* the process is killed during a cache pass while a worker is between
\* move_file and the write to the exclude file: nothing of the run is left
\* but the files and the exclude file as they are; a move_file that was still
\* under way leaves its file at the source
Crash ==
    /\ pc = "moving"
    /\ pass_dest = "cache"
    /\ runs < MaxRuns
    /\ crashed = NoCrash
    /\ BetweenMoveAndAppend # {}
    /\ crashed' = [stage |-> "crashed",
                   orphans |-> {w.cmd.cache_file_name : w \in BetweenMoveAndAppend},
                   ondeck |-> self_ondeck_items,
                   watchlist |-> watchlist_items]
    /\ pc' = "idle"
    /\ disk0' = disk
    /\ ledger0' = <<ledger_present, ledger>>
    /\ ResetRun
    /\ snap0' = snap_file
    /\ fetches' = <<>>
    /\ shortfalls' = {}
    /\ phase_log' = <<>>
    /\ UNCHANGED <<env_vars, runs, snap_file, skip_cache, connected, ledger_readable,
                   cleanup_vars, exit_status, call_vars>>

\* between two runs, a file of the cache tier is removed by someone else
ExternalRemove(p) ==
    /\ pc = "idle"
    /\ runs < MaxRuns
    /\ p \in disk
    /\ p \in CacheFiles
    /\ disk' = disk \ {p}
    /\ disk0' = disk'
    /\ UNCHANGED <<aux_vars, ledger_present, ledger, pc, runs, self_debug, self_files_to_skip,
                   self_ondeck_items, watchlist_items, watched_items,
                   self_media_to_cache, self_media_to_array, ledger0,
                   reconcile_vars, pool_vars, mkdirs, moved>>

Next ==
    \/ \E debug \in BOOLEAN, sessions \in SessionChoices,
          ondeck_media \in OnDeckChoices,
          fetched_watchlist \in WatchlistChoices,
          fetched_watched \in WatchedChoices :
            StartRun(debug, sessions, ondeck_media, fetched_watchlist, fetched_watched)
    \/ CheckFilesToMoveBack
    \/ ArrayPass
    \/ CachePass
    \/ StartMove
    \/ \E w \in workers : MoveDone(w)
    \/ \E w \in workers : MoveFailed(w)
    \/ \E w \in workers : OpenExcludeFile(w)
    \/ \E w \in workers : AppendToExcludeFile(w)
    \/ PassDone
    \/ Finish
    \/ Crash
    \/ \E p \in CacheFiles : ExternalRemove(p)

Spec == Init /\ [][Next]_vars

(***************************************************************************)
(* Properties of a run                                                     *)
(***************************************************************************)
\* the paths the run currently wants in the cache tier: the on-deck items
\* and the watchlist, in the real namespace
CurrentDesired == self_ondeck_items \cup {modify_file_path(x) : x \in watchlist_items}

ShowNeeded(p) ==
    \E d \in CurrentDesired :
        /\ _extract_show_name(d) # None
        /\ _extract_show_name(d) = _extract_show_name(p)

\* the move commands of the run's array pass whose move succeeded
MovedToArray == {m[2] : m \in {x \in moved : x[1] = "array"}}

ArrayPathOf(cmd) == normpath(join(cmd.dest, basename(cmd.src)))

InFlight == {w \in workers : w.stage = "moving"}

\* C1: between complete runs, every file this system moved into the cache
\* tier and that is still there has exactly one line in the exclude file.
\* (From a fresh installation every file of the cache tier was put there by
\* a run; a run that exits for lack of space is not complete and ends the
\* behaviour.)
C1_OneLedgerEntryPerCachedFile ==
    pc = "idle" => \A c \in CacheFiles \cap disk : Count(ledger, c) = 1

\* C3 as claimed: no episodic file is moved from the cache tier to the array
\* while a path of the run's desired sets has the same ShowGroup.
C3_NoMoveWhileShowNeeded ==
    \A cmd \in MovedToArray : ~ShowNeeded(cmd.src)

\* C3 as amended: a file moved from the cache tier to the array while a
\* desired path has its ShowGroup is on the run's watched-media list and is
\* not itself in media_to_cache; every file that the reconciliation proposed
\* is moved only when no desired path has its ShowGroup.
C3_OnlyWatchedMoveWhileShowNeeded ==
    \A cmd \in MovedToArray :
        ShowNeeded(cmd.src) =>
            /\ ArrayPathOf(cmd) \in ToSet(watched_items)
            /\ ArrayPathOf(cmd) \notin ToSet(self_media_to_cache)

C3_Witness ==
    \E cmd \in MovedToArray :
        /\ ShowNeeded(cmd.src)
        /\ ArrayPathOf(cmd) \in ToSet(watched_items)
        /\ normpath(cmd.src) \notin disk
        /\ ArrayPathOf(cmd) \in disk

\* C5: in a dry run no media file is created, moved or deleted and the
\* exclude file stays as it was when the run started.
C5_DryRunChangesNothing ==
    self_debug => disk = disk0 /\ <<ledger_present, ledger>> = ledger0

\* C9: after the reconciliation step every line of its removal set, stale
\* or proposed for move-back, is gone from the exclude file.
C9_RemovalSetPruned ==
    pc = "array_pass" => \A l \in ToSet(last_to_remove) : l \notin ToSet(ledger)

\* C10: during a move pass no more move_file calls are in flight than the
\* concurrency limit of the pass's direction.
C10_ConcurrencyBound ==
    pc = "moving" => Cardinality(InFlight) <= max_concurrent_moves(pass_dest)

\* the limit is reached while commands are still waiting
C10_Witness ==
    /\ pc = "moving"
    /\ Cardinality(InFlight) = max_concurrent_moves(pass_dest)
    /\ queue # <<>>
    /\ Len(pass_log[Len(pass_log)].commands) > max_concurrent_moves(pass_dest)

(***************************************************************************)
(* The reconciliation on its own: FileFilter.get_files_to_move_back_to_array*)
(* as PlexCacheApp._check_files_to_move_back_to_array calls it, from any    *)
(* exclude file of up to MaxLedgerLines lines and any content of the cache  *)
(* tier, over a library with a second show.                                *)
(***************************************************************************)
PlexY1 == <<"media", "tv", "ShowY", "Specials", "y01.mkv">>

MaxLedgerLines == 3

ReconcileLibrary == {modify_file_path(f) : f \in PlexFiles \cup {PlexY1}}

ReconcileCacheFiles == {_get_cache_paths(f)[2] : f \in ReconcileLibrary}

LedgersUpTo(n) == UNION {[1..k -> ReconcileCacheFiles] : k \in 0..n}

ReconcileOnDeckChoices == {{}, {PlexE1}, {PlexY1}, {PlexM1}, {PlexE1, PlexY1}}

\* no move pass has started
NoPass ==
    /\ pass_dest = "none"
    /\ pass_files = <<>>
    /\ queue = <<>>
    /\ workers = {}
    /\ errors = 0
    /\ after_pass = "none"
    /\ pass_log = <<>>
    /\ mkdirs = {}
    /\ moved = {}

\* a run that has fetched its media and is about to reconcile: each file of
\* the library is in the cache tier or on the array
InitReconcile ==
    /\ \E C \in SUBSET ReconcileCacheFiles :
          disk = C \cup {array_file_of(f) : f \in
                            {g \in ReconcileLibrary : _get_cache_paths(g)[2] \notin C}}
    /\ ledger_present \in BOOLEAN
    /\ ledger \in (IF ledger_present THEN LedgersUpTo(MaxLedgerLines) ELSE {<<>>})
    /\ pc = "reconcile"
    /\ runs = 1
    /\ self_debug = FALSE
    /\ self_files_to_skip = {}
    /\ \E ondeck_media \in ReconcileOnDeckChoices,
          fetched_watchlist \in WatchlistChoices :
          LET ondeck_items == ToSet(modify_file_paths(SetToSeq(ondeck_media)))
              modified_items == modify_file_paths(SetToSeq(fetched_watchlist))
              result_set == fetched_watchlist \cup ToSet(modified_items)
          IN /\ self_ondeck_items = ondeck_items
             /\ watchlist_items = result_set
             /\ self_media_to_cache =
                    modify_file_paths(SetToSeq(ondeck_items \cup result_set))
    /\ watched_items = <<>>
    /\ self_media_to_array = <<>>
    /\ last_move_back = <<>>
    /\ last_to_remove = <<>>
    /\ NoPass
    /\ disk0 = disk
    /\ ledger0 = <<ledger_present, ledger>>
    /\ snap_file = save_media_to_cache(watchlist_items)
    /\ snap0 = AbsentSnapshot
    /\ skip_cache = TRUE
    /\ connected = TRUE
    /\ fetches = <<"ok">>
    /\ ledger_readable = TRUE
    /\ CleanupIdle
    /\ ExitIdle

NextReconcile == CheckFilesToMoveBack

SpecReconcile == InitReconcile /\ [][NextReconcile]_vars

\* the array-tier path the reconciliation proposes for a line of the ledger
MoveBackPathOf(l) == replace1(l, cache_dir, real_source)

\* the lines of the exclude file when the run started
LedgerLines0 == IF ledger0[1] THEN ToSet(ledger0[2]) ELSE {}

\* those whose file exists and has a ShowGroup
ExistingEpisodic0 ==
    {l \in LedgerLines0 : normpath(l) \in disk0 /\ _extract_show_name(l) # None}

\* those whose file no longer exists
Stale0 == {l \in LedgerLines0 : normpath(l) \notin disk0}

\* C2: of the existing ledger entries with ShowGroup S, none is proposed for
\* move-back when a desired path has ShowGroup S; otherwise every one is
\* proposed, and each proposed file's entry is in the removal set.
C2_ShowLevelRetention ==
    pc = "array_pass" =>
        \A l \in ExistingEpisodic0 :
            IF ShowNeeded(l)
            THEN MoveBackPathOf(l) \notin ToSet(last_move_back)
            ELSE /\ MoveBackPathOf(l) \in ToSet(last_move_back)
                 /\ l \in ToSet(last_to_remove)

\* one show of the ledger is kept whole while another is evicted
C2_Witness ==
    /\ pc = "array_pass"
    /\ \E k, e \in ExistingEpisodic0 :
          /\ ShowNeeded(k)
          /\ MoveBackPathOf(k) \notin ToSet(last_move_back)
          /\ ~ShowNeeded(e)
          /\ MoveBackPathOf(e) \in ToSet(last_move_back)
          /\ e \in ToSet(last_to_remove)

\* C8: a ledger entry whose file no longer exists is in the removal set, and
\* neither it nor its array path is in the move-back list.
C8_StaleEntriesOnlyPruned ==
    pc = "array_pass" =>
        \A l \in Stale0 :
            /\ l \in ToSet(last_to_remove)
            /\ l \notin ToSet(last_move_back)
            /\ MoveBackPathOf(l) \notin ToSet(last_move_back)

\* a stale entry is pruned in the same reconciliation that proposes a file
C8_Witness ==
    /\ pc = "array_pass"
    /\ \E l \in Stale0 : l \in ToSet(last_to_remove)
    /\ last_move_back # <<>>

(***************************************************************************)
(* FileFilter.filter_files on its own, as                                   *)
(* PlexCacheApp._check_free_space_and_move_files calls it: toward the array *)
(* on media_to_array, toward the cache on media_to_cache, from any content  *)
(* of the two tiers and lists of up to MaxFilterList paths.                 *)
(***************************************************************************)
MaxFilterList == 2

ListsUpTo(n) == UNION {[1..k -> RealFiles] : k \in 0..n}

\* the skip list: empty, a playing file by its path on the media server, or
\* by its real path (a server that sees the files under the real root)
SkipChoices == {{}, {PlexE1}, {modify_file_path(PlexE1)}}

InitFilter ==
    /\ disk \in SUBSET (RealFiles \cup CacheFiles)
    /\ ledger_present = FALSE
    /\ ledger = <<>>
    /\ pc = "filter"
    /\ runs = 1
    /\ self_debug = FALSE
    /\ self_files_to_skip \in SkipChoices
    /\ self_ondeck_items = {}
    /\ watchlist_items = {}
    /\ watched_items = <<>>
    /\ self_media_to_cache \in ListsUpTo(MaxFilterList)
    /\ pass_dest \in {"array", "cache"}
    /\ self_media_to_array \in (IF pass_dest = "array" THEN ListsUpTo(MaxFilterList)
                                ELSE {<<>>})
    /\ last_move_back = <<>>
    /\ last_to_remove = <<>>
    /\ pass_files = <<>>
    /\ queue = <<>>
    /\ workers = {}
    /\ errors = 0
    /\ after_pass = "none"
    /\ pass_log = <<>>
    /\ mkdirs = {}
    /\ moved = {}
    /\ disk0 = disk
    /\ ledger0 = <<ledger_present, ledger>>
    /\ SnapshotIdle
    /\ CleanupIdle
    /\ ExitIdle

\* the list the pass filters
FilterInput == IF pass_dest = "array" THEN self_media_to_array ELSE self_media_to_cache

\* the call of filter_files: the returned list is left in pass_files
FilterFiles ==
    /\ pc = "filter"
    /\ LET f == filter_files(FilterInput, pass_dest, self_media_to_cache,
                             self_files_to_skip, disk)
       IN /\ disk' = f.fs
          /\ pass_files' = f.media_to
    /\ pc' = "filtered"
    /\ UNCHANGED <<aux_vars, ledger_present, ledger, runs, run_vars, reconcile_vars, pass_dest,
                   queue, workers, errors, after_pass, pass_log, mkdirs, moved>>

NextFilter == FilterFiles

SpecFilter == InitFilter /\ [][NextFilter]_vars

CachePathOf(file) == normpath(_get_cache_paths(file)[2])

ArrayCopyOf(file) == normpath(array_file_of(file))

\* the files of the filtered list, not skipped, that were in both tiers
Duplicates0 ==
    {f \in ToSet(FilterInput) \ self_files_to_skip :
        CachePathOf(f) \in disk0 /\ ArrayCopyOf(f) \in disk0}

MaxMoveList == 2

MoveListsUpTo(n) == UNION {[1..k -> RealFiles] : k \in 0..n}

InitMove ==
    /\ disk \in SUBSET (RealFiles \cup CacheFiles)
    /\ ledger_present \in BOOLEAN
    /\ ledger = IF ledger_present THEN SetToSeq(disk \cap CacheFiles) ELSE <<>>
    /\ pc = "move1"
    /\ runs = 1
    /\ self_debug \in BOOLEAN
    /\ self_files_to_skip = {}
    /\ self_ondeck_items = {}
    /\ watchlist_items = {}
    /\ watched_items = <<>>
    /\ self_media_to_cache = <<>>
    /\ self_media_to_array = <<>>
    /\ last_move_back = <<>>
    /\ last_to_remove = <<>>
    /\ pass_dest \in {"array", "cache"}
    /\ pass_files \in MoveListsUpTo(MaxMoveList)
    /\ queue = <<>>
    /\ workers = {}
    /\ errors = 0
    /\ after_pass = "none"
    /\ pass_log = <<>>
    /\ mkdirs = {}
    /\ moved = {}
    /\ disk0 = disk
    /\ ledger0 = <<ledger_present, ledger>>
    /\ SnapshotIdle
    /\ CleanupIdle
    /\ ExitIdle

\* a call of move_media_files(pass_files, pass_dest, ...): the first, then
\* the second when the first has returned
MoveMediaFiles ==
    /\ pc \in {"move1", "move2"}
    /\ UNCHANGED <<aux_vars, env_vars, runs, run_vars, reconcile_vars, moved>>
    /\ LET m == move_media_files(pass_files, pass_dest, self_debug, disk)
       IN /\ mkdirs' = mkdirs \cup m.mkdirs
          /\ StartPool(pass_dest, pass_files, m.move_commands,
                       IF pc = "move1" THEN "move2" ELSE "done")

NextMove ==
    \/ MoveMediaFiles
    \/ StartMove
    \/ \E w \in workers : MoveDone(w)
    \/ \E w \in workers : MoveFailed(w)
    \/ \E w \in workers : OpenExcludeFile(w)
    \/ \E w \in workers : AppendToExcludeFile(w)
    \/ PassDone

SpecMove == InitMove /\ [][NextMove]_vars

\* both calls have returned
TwiceDone == pc = "done" /\ Len(pass_log) = 2

\* the second call planned nothing and left both the files and the exclude
\* file as the first call had left them
SecondCallIdle ==
    /\ pass_log[2].commands = <<>>
    /\ disk = pass_log[2].disk_before
    /\ <<ledger_present, ledger>> = pass_log[2].ledger_before

AtMostOneEntryEach == \A c \in CacheFiles : Count(ledger, c) <= 1

\* C4 as claimed: move_media_files toward the cache, called twice, ends in
\* the filesystem state of one call; the second call generates no command and
\* appends nothing, and no file has more than one line in the exclude file.
C4_SecondCacheMoveIdle ==
    (TwiceDone /\ pass_dest = "cache" /\ ~self_debug) =>
        SecondCallIdle /\ AtMostOneEntryEach

\* C4 as amended: that holds when every move of the first call succeeded;
\* and whether or not a move failed, no file has more than one line in the
\* exclude file after the two calls.
C4_SecondCacheMoveIdleAfterSuccess ==
    (TwiceDone /\ pass_dest = "cache" /\ ~self_debug) =>
        /\ AtMostOneEntryEach
        /\ pass_log[1].errors = 0 => SecondCallIdle

\* the first call moved a file into the cache tier and the second found
\* nothing to do
C4_Witness ==
    /\ TwiceDone
    /\ pass_dest = "cache"
    /\ ~self_debug
    /\ pass_log[1].commands # <<>>
    /\ pass_log[1].errors = 0
    /\ \E m \in moved : Count(ledger, m[2].cache_file_name) = 1
    /\ SecondCallIdle

\* C6: in dry-run move_media_files, in either direction, creates no
\* directory, starts no move_file call and appends nothing to the exclude
\* file: the files and the exclude file stay as they were.
C6_DryRunMoveHasNoEffect ==
    self_debug =>
        /\ mkdirs = {}
        /\ workers = {}
        /\ queue = <<>>
        /\ moved = {}
        /\ disk = disk0
        /\ <<ledger_present, ledger>> = ledger0

\* a dry-run call that planned, and logged, a move
C6_Witness ==
    /\ self_debug
    /\ pc = "done"
    /\ \E k \in 1..Len(pass_log) : pass_log[k].commands # <<>>

(***************************************************************************)
(* Properties of the move workers (FileMover._move_file)                   *)
(***************************************************************************)
\* the workers between opening and closing the exclude file
Appending == {w \in workers : w.stage = "open"}

\* C11: at most one worker at a time is between opening and closing the
\* exclude file, and every line of the exclude file is one complete path,
\* the cache path of a file.
C11_AppendSerialized ==
    /\ Cardinality(Appending) <= 1
    /\ \A k \in 1..Len(ledger) : ledger[k] \in CacheFiles

\* one worker holds the lock while another is still inside move_file: the
\* lock does not serialize the moves
C11_Witness ==
    /\ pc = "moving"
    /\ \E a, b \in workers : a.stage = "open" /\ b.stage = "moving"

\* the exclude file when the current move pass started
LedgerBeforePass == pass_log[Len(pass_log)].ledger_before[2]

\* the commands of the run's cache pass whose move_file returned
MovedToCache == {m[2] : m \in {x \in moved : x[1] = "cache"}}

\* C12: during a move pass the exclude file only grows, and only by the
\* cache path of a command of a cache pass whose move_file has returned:
\* an array pass appends nothing, and there are never more new lines than
\* successful moves, so a failed move appends nothing.
C12_AppendOnlyAfterCacheMove ==
    pc = "moving" =>
        /\ Len(ledger) >= Len(LedgerBeforePass)
        /\ SubSeq(ledger, 1, Len(LedgerBeforePass)) = LedgerBeforePass
        /\ pass_dest = "array" => ledger = LedgerBeforePass
        /\ \A k \in (Len(LedgerBeforePass) + 1)..Len(ledger) :
              \E m \in MovedToCache : m.cache_file_name = ledger[k]
        /\ Len(ledger) - Len(LedgerBeforePass) <= Cardinality(MovedToCache)

\* a cache pass in which one move failed and another succeeded has ended
\* with one new line, that of the successful move
C12_Witness ==
    /\ pc = "moving"
    /\ pass_dest = "cache"
    /\ queue = <<>>
    /\ workers = {}
    /\ errors = 1
    /\ Cardinality(MovedToCache) = 1
    /\ Len(ledger) = Len(LedgerBeforePass) + 1
    /\ \E m \in MovedToCache : ledger[Len(ledger)] = m.cache_file_name

\* the commands of the current pass
PassCommands == pass_log[Len(pass_log)].commands

\* those whose move_file has returned
MovedThisPass == {m[2] : m \in {x \in moved : x[1] = pass_dest}}

\* those whose worker has returned 0
Returned0 == {c \in MovedThisPass : ~\E w \in workers : w.cmd = c}

-----------------------------------------------------------------------------
\* CacheCleanup: the guard of the constructor.  The argument is a raw
\* string, held as the sequence str.split('/') gives: "/mnt/user/" is
\* <<"", "mnt", "user", "">>, the empty string is <<"">>.

MaxRawLen == 4

RawTokens == {"", ".", "..", " ", "mnt", "user", "etc", "cache"}

RawStrings == UNION {[1..n -> RawTokens] : n \in 1..MaxRawLen}

\* not cache_dir or not cache_dir.strip()
is_blank(raw) == Len(raw) = 1 /\ raw[1] \in {"", " "}

\* the number of leading slashes posixpath.normpath keeps
initial_slashes(raw) ==
    IF Len(raw) >= 2 /\ raw[1] = ""
    THEN IF Len(raw) >= 3 /\ raw[2] = "" /\ ~(Len(raw) >= 4 /\ raw[3] = "")
         THEN 2
         ELSE 1
    ELSE 0

RECURSIVE normpath_comps(_, _, _, _)
normpath_comps(raw, k, slashes, new_comps) ==
    IF k > Len(raw) THEN new_comps
    ELSE LET comp == raw[k]
         IN  IF comp \in {"", "."}
             THEN normpath_comps(raw, k + 1, slashes, new_comps)
             ELSE IF \/ comp # ".."
                     \/ (slashes = 0 /\ new_comps = <<>>)
                     \/ (new_comps # <<>> /\ new_comps[Len(new_comps)] = "..")
                  THEN normpath_comps(raw, k + 1, slashes, Append(new_comps, comp))
                  ELSE IF new_comps # <<>>
                       THEN normpath_comps(raw, k + 1, slashes, SubSeq(new_comps, 1, Len(new_comps) - 1))
                       ELSE normpath_comps(raw, k + 1, slashes, new_comps)

\* os.path.normpath of a raw string: the leading slashes it keeps and the
\* components between them; <<>> with no slash is "."
os_path_normpath(raw) ==
    LET slashes == initial_slashes(raw)
    IN  [slashes |-> slashes, comps |-> normpath_comps(raw, 1, slashes, <<>>)]

_PROTECTED_PATHS ==
    {[slashes |-> 1, comps |-> c] :
        c \in {<<>>, <<"mnt">>, <<"mnt", "user">>, <<"mnt", "user0">>,
               <<"home">>, <<"var">>, <<"etc">>, <<"usr">>}}

\* the raw string itself spells a protected path
in_protected_unnormalized(raw) == [slashes |-> IF Len(raw) >= 2 /\ raw[1] = "" THEN 1 ELSE 0, comps |-> SubSeq(raw, 2, Len(raw))] \in _PROTECTED_PATHS

\* normalized_cache_dir in self._PROTECTED_PATHS
in_protected(raw) == os_path_normpath(raw) \in _PROTECTED_PATHS

\* the subdirectories os.listdir may find under the cache directory
CleanupSubdirs == {"tv", "movies"}

\* the folders there may be below them
FolderNames == {"a", "b"}

MaxTreeDepth == 3

\* the most removals that fail in one sweep
MaxFailures == 1

\* the directories there may be below the cache directory, as paths relative
\* to it: below "tv" the folders a and b and a chain of folders under each,
\* below "movies" one level of folders
DirUniverse ==
    {d \in UNION {[1..n -> CleanupSubdirs \cup FolderNames] : n \in 1..MaxTreeDepth} :
        /\ d[1] \in CleanupSubdirs
        /\ \A k \in 2..Len(d) : d[k] \in FolderNames
        /\ \A k \in 3..Len(d) : d[k] = "a"
        /\ d[1] = "movies" => (Len(d) <= 2 /\ \A k \in 2..Len(d) : d[k] = "a")}

\* the directory a path lies in
parent_dir(d) == SubSeq(d, 1, Len(d) - 1)

\* every directory of D lies in a directory of D or in the cache directory
IsTree(D) == \A d \in D : Len(d) > 1 => parent_dir(d) \in D

\* the directories os.walk finds in root
subdirs_of(root, D) == {d \in D : Len(d) = Len(root) + 1 /\ parent_dir(d) = root}

\* not os.listdir(dir_path): the directory has no entry
is_empty_dir(d, D, F) == subdirs_of(d, D) = {} /\ d \notin F

\* CacheCleanup as PlexCacheApp constructs it: no library folders are given
library_folders == {}

\* a walk that only looks at the directories that were empty from the start
_cleanup_directory_once(root, D, F, fail) ==
    [removed |-> {d \in D : /\ Len(d) > Len(root)
                             /\ SubSeq(d, 1, Len(root)) = root
                             /\ is_empty_dir(d, D, F)
                             /\ d \notin fail},
     failed |-> {d \in D : /\ Len(d) > Len(root)
                            /\ SubSeq(d, 1, Len(root)) = root
                            /\ is_empty_dir(d, D, F)
                            /\ d \in fail}]

\* CacheCleanup._cleanup_directory: os.walk(topdown=False) yields root after
\* the directories below it; for each directory found in root, os.rmdir if
\* it has no entry left.  fail: the directories whose rmdir raises OSError.
\* The result is what was removed and what could not be.
\* a sweep that removes the directory it was given as well, when it is
\* left empty
RECURSIVE _cleanup_directory_and_top(_, _, _, _)
_cleanup_directory_and_top(root, D, F, fail) ==
    LET below == {_cleanup_directory_and_top(c, D, F, fail) : c \in subdirs_of(root, D)}
        removed_below == UNION {r.removed : r \in below}
        failed_below == UNION {r.failed : r \in below}
        top == IF is_empty_dir(root, D \ removed_below, F) THEN {root} ELSE {}
    IN  [removed |-> removed_below \cup (top \ fail),
         failed |-> failed_below \cup (top \cap fail)]

RECURSIVE _cleanup_directory(_, _, _, _)
_cleanup_directory(root, D, F, fail) ==
    LET below == {_cleanup_directory(c, D, F, fail) : c \in subdirs_of(root, D)}
        removed_below == UNION {r.removed : r \in below}
        failed_below == UNION {r.failed : r \in below}
        left == D \ removed_below
        empty_now == {c \in subdirs_of(root, D) : is_empty_dir(c, left, F)}
    IN  [removed |-> removed_below \cup (empty_now \ fail),
         failed |-> failed_below \cup (empty_now \cap fail)]

InitCleanup ==
    /\ disk = {}
    /\ ledger_present = FALSE
    /\ ledger = <<>>
    /\ pc = "idle"
    /\ runs = 0
    /\ NoRun
    /\ disk0 = disk
    /\ ledger0 = <<ledger_present, ledger>>
    /\ SnapshotIdle
    /\ ExitIdle
    /\ cleanup_arg \in RawStrings
    /\ cleanup_pc = "none"
    /\ dirs_touched = {}
    /\ dirs \in {{}, {<<"tv">>, <<"tv", "a">>}}
    /\ dir_files = {}

\* CacheCleanup.__init__
CacheCleanup_init ==
    /\ cleanup_pc = "none"
    /\ cleanup_pc' = IF is_blank(cleanup_arg) \/ in_protected(cleanup_arg)
                     THEN "raised"
                     ELSE "constructed"
    /\ UNCHANGED <<env_vars, pc, runs, run_vars, reconcile_vars, pool_vars, mkdirs,
                   moved, snapshot_vars, cleanup_arg, dirs_touched, dirs, dir_files,
                   exit_vars, crashed, phase_log, call_vars>>

\* CacheCleanup.cleanup_empty_folders: the library folders given, or else the
\* subdirectories os.listdir finds in the cache directory (none if the listing
\* fails), are each walked bottom-up and their empty folders removed
cleanup_empty_folders ==
    /\ cleanup_pc = "constructed"
    /\ \E list_ok \in BOOLEAN, fail \in {f \in SUBSET dirs : Cardinality(f) <= MaxFailures} :
         LET subdirs_to_clean ==
                 IF library_folders # {}
                 THEN {<<f>> : f \in library_folders} \cap dirs
                 ELSE IF list_ok THEN subdirs_of(<<>>, dirs) ELSE {}
             swept == {_cleanup_directory(d, dirs, dir_files, fail) : d \in subdirs_to_clean}
             removed == UNION {r.removed : r \in swept}
             failed == UNION {r.failed : r \in swept}
         IN /\ dirs' = dirs \ removed
            /\ dirs_touched' =
                   (IF library_folders = {}
                    THEN {[op |-> "listdir", dir |-> cleanup_arg, sub |-> <<>>]}
                    ELSE {})
                       \cup {[op |-> "walk", dir |-> cleanup_arg, sub |-> d] : d \in subdirs_to_clean}
                       \cup {[op |-> "rmdir", dir |-> cleanup_arg, sub |-> d] : d \in removed}
                       \cup {[op |-> "rmdir_failed", dir |-> cleanup_arg, sub |-> d] : d \in failed}
    /\ cleanup_pc' = "cleaned"
    /\ UNCHANGED <<env_vars, pc, runs, run_vars, reconcile_vars, pool_vars, mkdirs,
                   moved, snapshot_vars, cleanup_arg, dir_files, exit_vars, crashed, phase_log, call_vars>>

NextCleanup ==
    \/ CacheCleanup_init
    \/ cleanup_empty_folders

SpecCleanup == InitCleanup /\ [][NextCleanup]_vars

\* the argument is the empty string or only whitespace
EmptyCacheRoot == cleanup_arg \in {<<"">>, <<" ">>}

\* what the argument names once "." and repeated or trailing slashes are
\* dropped and ".." is resolved is a path of the deny list
NormalizesToDenyListed == os_path_normpath(cleanup_arg) \in _PROTECTED_PATHS

\* C14: a CacheCleanup given an empty cache root, or one that normalizes to
\* a path of the deny list (with or without a trailing slash), fails in its
\* constructor, and no directory is ever listed, walked or removed.
C14_ProtectedRootRejected ==
    (cleanup_pc # "none" /\ (EmptyCacheRoot \/ NormalizesToDenyListed))
        => (cleanup_pc = "raised" /\ dirs_touched = {})

C14_Witness ==
    /\ cleanup_pc = "raised"
    /\ cleanup_arg = <<"", "mnt", "user", "">>
    /\ dirs_touched = {}


-----------------------------------------------------------------------------
\* The watchlist snapshot of one run: _process_watchlist over every snapshot
\* file, with and without --skip-cache, --debug and a connection, followed
\* by the reconciliation that reads the snapshot back.

SnapshotMediaChoices == {watchlist_result_set(fw) : fw \in WatchlistChoices}

SnapshotFiles ==
    {AbsentSnapshot}
        \cup [kind : {"dict", "list"}, media : SnapshotMediaChoices, old : BOOLEAN]
        \cup [kind : {"garbage", "scalar", "media_str", "media_null"}, media : {{}}, old : BOOLEAN]

SnapshotCacheFile == _get_cache_paths(modify_file_path(PlexE2))[2]

InitSnapshot ==
    /\ disk \in {RealFiles, (RealFiles \ {modify_file_path(PlexE2)}) \cup {SnapshotCacheFile}}
    /\ ledger_present \in BOOLEAN
    /\ ledger \in (IF ledger_present THEN {<<>>, <<SnapshotCacheFile>>} ELSE {<<>>})
    /\ pc = "watchlist"
    /\ runs = 1
    /\ self_debug \in BOOLEAN
    /\ self_files_to_skip = {}
    /\ self_ondeck_items = {}
    /\ watchlist_items = {}
    /\ watched_items = <<>>
    /\ self_media_to_cache = <<>>
    /\ self_media_to_array = <<>>
    /\ last_move_back = <<>>
    /\ last_to_remove = <<>>
    /\ NoPass
    /\ disk0 = disk
    /\ ledger0 = <<ledger_present, ledger>>
    /\ snap_file \in SnapshotFiles
    /\ snap0 = snap_file
    /\ skip_cache \in BOOLEAN
    /\ connected \in BOOLEAN
    /\ fetches = <<>>
    /\ ledger_readable \in BOOLEAN
    /\ CleanupIdle
    /\ ExitIdle

\* the watchlist part of PlexCacheApp._process_media, with nothing on deck
ProcessWatchlist(unlink_ok, outcome, fetched_watchlist) ==
    /\ pc = "watchlist"
    /\ watchlist_toggle
    /\ LET w == _process_watchlist(snap_file, skip_cache, self_debug, connected,
                                   unlink_ok, outcome, fetched_watchlist)
       IN /\ watchlist_items' = w.result_set
          /\ self_media_to_cache' = modify_file_paths(SetToSeq(w.result_set))
          /\ snap_file' = w.file
          /\ fetches' = w.fetches
          /\ last_fetch' = IF w.fetches = <<"ok">>
                           THEN [kind |-> "watchlist", media |-> fetched_watchlist]
                           ELSE last_fetch
    /\ pc' = "reconcile"
    /\ UNCHANGED <<env_vars, runs, self_debug, self_files_to_skip, self_ondeck_items,
                   watched_items, self_media_to_array, disk0, ledger0, reconcile_vars,
                   pool_vars, mkdirs, moved, snap0, skip_cache, connected,
                   ledger_readable, cleanup_vars, exit_vars, crashed, phase_log,
                   modify_call, watched_snap, paths_call, config_state>>

NextSnapshot ==
    \/ \E unlink_ok \in BOOLEAN, outcome \in {"ok", "raises"},
          fetched_watchlist \in WatchlistChoices :
          ProcessWatchlist(unlink_ok, outcome, fetched_watchlist)
    \/ CheckFilesToMoveBack

SpecSnapshot == InitSnapshot /\ [][NextSnapshot]_vars

\* the watchlist has been processed
WatchlistProcessed == pc # "watchlist"

\* the reconciliation has run
Reconciled == pc \notin {"watchlist", "reconcile"}

\* the snapshot the run found is older than the window; a file that is not
\* JSON is rewritten by the load, so that it is new when its age is taken
AgeExceeded0 == snap0.old /\ snap0.kind # "garbage"

\* the snapshot the run found is expired
Expired0 == skip_cache \/ self_debug \/ snap0.kind = "absent" \/ AgeExceeded0

\* the paths of the snapshot the run found
LastGood0 == IF snap0.kind \in {"dict", "list"} THEN snap0.media ELSE {}

\* C15 as stated: the snapshot is re-fetched exactly when the refresh is
\* forced, debug is on, the file is absent or older than the window.
C15_ExpiredIffRefetched ==
    WatchlistProcessed =>
        ((skip_cache \/ self_debug \/ snap0.kind = "absent" \/ snap0.old) <=> fetches # <<>>)

\* C15: on a connected host a snapshot that loads is re-fetched exactly when
\* the refresh is forced, debug is on, the file is absent or older than the
\* window, and otherwise its paths are reused without a fetch; with no
\* connection the snapshot is reused without a fetch, expired or not.
C15_ExpiredIffRefetchedWhenConnected ==
    WatchlistProcessed =>
        /\ (connected /\ snap0.kind # "media_null") => (Expired0 <=> fetches # <<>>)
        /\ ~connected => fetches = <<>>
        /\ (fetches = <<>> /\ snap0.kind \in {"absent", "dict", "list"})
              => watchlist_items = LastGood0

C15_Witness ==
    /\ WatchlistProcessed
    /\ connected /\ ~skip_cache /\ ~self_debug
    /\ snap0.kind = "dict" /\ snap0.old /\ snap0.media # {}
    /\ fetches = <<"ok">>
    /\ snap_file.kind = "dict" /\ ~snap_file.old

\* C16: when the upstream fetch of a refresh fails, the run goes on with the
\* paths of the last good snapshot as its watchlist (none if there was no
\* snapshot), and that snapshot is still on disk.
C16_FetchFailureKeepsLastGood ==
    (WatchlistProcessed /\ fetches = <<"raises">>)
        => /\ watchlist_items = LastGood0
           /\ snap0.kind \in {"dict", "list"} => snap_file = snap0

\* C17: an absent, unparseable or wrongly shaped snapshot gives an empty
\* path set, an absent or unreadable exclude file gives empty move-back and
\* prune lists, and the run goes on.
C17_MalformedStateIsEmpty ==
    /\ (WatchlistProcessed /\ fetches = <<>> /\ snap0.kind \notin {"dict", "list"})
          => watchlist_items = {}
    /\ (Reconciled /\ (~ledger_present \/ ~ledger_readable))
          => (last_move_back = <<>> /\ last_to_remove = <<>>)


-----------------------------------------------------------------------------
\* the passes of the run that were handed to the mover
PassesStarted == {pass_log[k].dest : k \in 1..Len(pass_log)}

\* the destinations some file was moved to in the run
DestinationsMoved == {m[1] : m \in moved}

\* C18: when the filtered batch of a pass is larger than the free space of
\* its destination, a production run exits with a non-zero status and moves
\* no file of that batch, and a dry run logs it and goes on with the pass.
C18_ShortfallStopsProductionRun ==
    /\ \A d \in shortfalls :
          IF self_debug
          THEN /\ pc # "exited"
               /\ exit_status = "none"
               /\ d \in PassesStarted
          ELSE /\ pc = "exited"
               /\ exit_status = "1"
               /\ d \notin PassesStarted
               /\ d \notin DestinationsMoved
               /\ queue = <<>> /\ workers = {}
    /\ pc = "exited" <=> exit_status = "1"
    /\ pc = "exited" => shortfalls # {}

C18_Witness ==
    /\ pc = "exited"
    /\ exit_status = "1"
    /\ shortfalls = {"cache"}
    /\ "array" \in DestinationsMoved


-----------------------------------------------------------------------------
\* the positions of a phase in the log of the run
PhaseAt(name) == {k \in 1..Len(phase_log) : phase_log[k] = name}

\* the order in which run goes through _process_media and _move_files
PhaseOrder == <<"reconcile", "array", "cache">>

\* the cache-tier paths of the files moved into the cache in the run
CachedThisRun == {c.cache_file_name : c \in MovedToCache}

\* the cache-tier paths of the files the reconciliation of the run evicts
EvictedThisRun == {replace1(f, real_source, cache_dir) : f \in ToSet(last_move_back)}

-----------------------------------------------------------------------------
\* the files a killed run left at their cache path without a line in the
\* exclude file
Orphans == crashed.orphans

\* a complete production run with the desired sets of the killed run has
\* followed the kill
Recovered == crashed.stage = "recovered" /\ pc = "idle"

\* C20: a file that a killed run had placed at its cache path without
\* appending its line has, after the next complete run with the same
\* desired set, a line in the exclude file or is no longer in the cache tier.
C20_OrphanRecoveredByNextRun ==
    Recovered => \A f \in Orphans : f \in ToSet(ledger) \/ ~isfile(f, disk)


-----------------------------------------------------------------------------
\* the lines of the exclude file whose file exists and has no ShowGroup
ExistingShowless0 ==
    {l \in LedgerLines0 : normpath(l) \in disk0 /\ _extract_show_name(l) = None}

\* the paths of the current desired sets, in the real namespace
DesiredPaths == self_ondeck_items \cup {modify_file_path(x) : x \in load_media_from_cache(snap_file).media}

\* C21: an existing ledger entry with no ShowGroup (a movie) is proposed for
\* move-back, and its entry for removal, exactly when its path is in no
\* current desired set.
C21_ShowlessDecidedPerFile ==
    pc = "array_pass" =>
        \A l \in ExistingShowless0 :
            IF MoveBackPathOf(l) \in DesiredPaths
            THEN /\ MoveBackPathOf(l) \notin ToSet(last_move_back)
                 /\ l \notin ToSet(last_to_remove)
            ELSE /\ MoveBackPathOf(l) \in ToSet(last_move_back)
                 /\ l \in ToSet(last_to_remove)


-----------------------------------------------------------------------------
\* The sweep at the end of a run: the CacheCleanup of the configured cache
\* directory over every tree of directories and files below it, in a
\* production run and in a dry run.

\* the cache directory as the configuration spells it
cache_dir_raw == <<"">> \o cache_dir \o <<"">>

InitSweep ==
    /\ disk = {}
    /\ ledger_present = FALSE
    /\ ledger = <<>>
    /\ pc = "finish"
    /\ runs = 1
    /\ self_debug \in BOOLEAN
    /\ self_files_to_skip = {}
    /\ self_ondeck_items = {}
    /\ watchlist_items = {}
    /\ watched_items = <<>>
    /\ self_media_to_cache = <<>>
    /\ self_media_to_array = <<>>
    /\ last_move_back = <<>>
    /\ last_to_remove = <<>>
    /\ NoPass
    /\ disk0 = disk
    /\ ledger0 = <<ledger_present, ledger>>
    /\ SnapshotIdle
    /\ ExitIdle
    /\ cleanup_arg = cache_dir_raw
    /\ cleanup_pc = "none"
    /\ dirs_touched = {}
    /\ dirs \in {D \in SUBSET DirUniverse : IsTree(D)}
    /\ dir_files \in SUBSET dirs

SpecSweep == InitSweep /\ [][NextCleanup]_vars

\* the directories the sweep removed
DirsRemoved == {t.sub : t \in {u \in dirs_touched : u.op = "rmdir"}}

\* the directories whose removal failed
DirsFailed == {t.sub : t \in {u \in dirs_touched : u.op = "rmdir_failed"}}

\* the subdirectories of the cache directory the sweep walked
DirsCleaned == {t.sub : t \in {u \in dirs_touched : u.op = "walk"}}

\* d lies strictly below a walked subdirectory
BelowCleaned(d) == \E c \in DirsCleaned : Len(d) > Len(c) /\ SubSeq(d, 1, Len(c)) = c

\* C22: in a dry run the cleanup at the end of the run removes no directory.
C22_DryRunCleanupRemovesNothing ==
    self_debug => DirsRemoved = {}


\* the directories strictly below a walked subdirectory that are left empty
EmptyLeftBelow == {d \in dirs : BelowCleaned(d) /\ is_empty_dir(d, dirs, dir_files)}

\* C29: when the sweep is over, every empty directory left strictly below a
\* walked subdirectory is one whose removal failed: with no failure none is
\* left, also of those that were emptied by the removal of their own
\* folders, and a failure does not keep the other directories from removal.
C29_NoEmptyDirectoryLeft ==
    cleanup_pc = "cleaned" =>
        /\ EmptyLeftBelow \subseteq DirsFailed
        /\ DirsRemoved \cap dirs = {}
        /\ DirsFailed \subseteq dirs
        /\ \A d \in DirsRemoved : BelowCleaned(d) /\ d \notin dir_files
        /\ IsTree(dirs)

C29_Witness ==
    /\ cleanup_pc = "cleaned"
    /\ {<<"tv", "a">>, <<"tv", "a", "a">>} \subseteq DirsRemoved
    /\ DirsFailed = {<<"tv", "b", "a">>}
    /\ <<"movies", "a">> \in DirsRemoved


-----------------------------------------------------------------------------
\* The rewrite of the exclude file: remove_files_from_exclude_list over every
\* exclude file of up to MaxLedgerLines lines, some blank or followed by white
\* space, and every list of up to MaxPruneList paths to remove.

MaxPruneList == 2

PrunePaths == {_get_cache_paths(modify_file_path(f))[2] : f \in {PlexE1, PlexM1}}

\* the lines an exclude file may hold: a path, a path followed by white
\* space, an empty line, a line of white space
RawLines == PrunePaths \cup {p \o <<" ">> : p \in PrunePaths} \cup {<<>>, <<" ">>}

InitPrune ==
    /\ disk = {}
    /\ ledger_present \in BOOLEAN
    /\ ledger \in (IF ledger_present
                   THEN UNION {[1..n -> RawLines] : n \in 0..MaxLedgerLines}
                   ELSE {<<>>})
    /\ pc = "prune"
    /\ runs = 1
    /\ self_debug = FALSE
    /\ self_files_to_skip = {}
    /\ self_ondeck_items = {}
    /\ watchlist_items = {}
    /\ watched_items = <<>>
    /\ self_media_to_cache = <<>>
    /\ self_media_to_array = <<>>
    /\ last_move_back = <<>>
    /\ last_to_remove \in UNION {[1..n -> PrunePaths] : n \in 0..MaxPruneList}
    /\ NoPass
    /\ disk0 = disk
    /\ ledger0 = <<ledger_present, ledger>>
    /\ SnapshotIdle
    /\ CleanupIdle
    /\ ExitIdle

\* the steps of the rewrite that may raise
IoOutcomes ==
    {IoOk} \cup [step : {"read", "open"}, written : {0}]
           \cup [step : {"write"}, written : 0..MaxLedgerLines]

\* a call of remove_files_from_exclude_list with the list in last_to_remove
RemoveFilesFromExcludeList(io) ==
    /\ pc = "prune"
    /\ LET r == remove_files_from_exclude_list(last_to_remove, ledger_present, ledger, io)
       IN /\ ledger' = r.lines
          /\ pc' = IF r.ok THEN "returned_True" ELSE "returned_False"
    /\ UNCHANGED <<aux_vars, disk, ledger_present, runs, run_vars, reconcile_vars,
                   pool_vars, mkdirs, moved>>

NextPrune == \E io \in IoOutcomes : RemoveFilesFromExcludeList(io)

SpecPrune == InitPrune /\ [][NextPrune]_vars

\* the lines of the exclude file before the call
RawLedger0 == ledger0[2]

\* a line that is not blank
NonBlank(l) == l \notin {<<>>, <<" ">>}

\* a line without the white space around it
Stripped(l) == IF l \in PrunePaths THEN l ELSE SubSeq(l, 1, Len(l) - 1)

\* the positions of the previous lines that are to stay
KeptPositions0 ==
    {k \in 1..Len(RawLedger0) :
        NonBlank(RawLedger0[k]) /\ Stripped(RawLedger0[k]) \notin ToSet(last_to_remove)}

\* s is the lines of RawLedger0 at the first n kept positions, in their order
IsKeptPrefix(s, n) ==
    /\ Len(s) = n
    /\ n <= Cardinality(KeptPositions0)
    /\ \A i \in 1..n :
          \E k \in KeptPositions0 :
              /\ Cardinality({j \in KeptPositions0 : j < k}) = i - 1
              /\ s[i] = Stripped(RawLedger0[k])

\* C23: remove_files_from_exclude_list leaves exactly the previous non-blank
\* lines that are not in the given set, in their order and with their
\* repetitions, and returns True; with no exclude file or a failing step it
\* returns False, and it never raises.
C23_PruneKeepsTheOtherLines ==
    /\ pc \in {"prune", "returned_True", "returned_False"}
    /\ pc = "returned_True" =>
          (ledger0[1] /\ IsKeptPrefix(ledger, Cardinality(KeptPositions0)))
    /\ pc = "returned_False" =>
          \/ ledger = RawLedger0
          \/ (ledger0[1] /\ IsKeptPrefix(ledger, Len(ledger))
                /\ Len(ledger) < Cardinality(KeptPositions0))
    /\ (pc # "prune" /\ ~ledger0[1]) => (pc = "returned_False" /\ ~ledger_present)

C23_Witness ==
    /\ pc = "returned_True"
    /\ Len(RawLedger0) = 3
    /\ RawLedger0[1] = RawLedger0[3]
    /\ RawLedger0[2] = <<>>
    /\ Len(ledger) = 2
    /\ ledger[1] = ledger[2]
    /\ last_to_remove # <<>>


-----------------------------------------------------------------------------
\* FilePathModifier.modify_file_paths over every pair of folder tables the
\* settings file may hold (ConfigManager loads the two lists as they are)
\* and every list of up to MaxModifyList paths.

MaxModifyList == 2

PlexFolderTables == {<<>>, <<"tv">>, <<"tv", "movies">>}

NasFolderTables == {<<>>, <<"TV">>, <<"TV", "Movies">>}

\* plex_source and real_source: the server sees the library under a root of
\* its own, or under a root that the real root lies below
RootChoices == {<<plex_source, real_source>>, <<<<"mnt">>, real_source>>}

\* paths of the server's namespace, a path that is converted already and a
\* path under another root
ModifyInputs == {PlexE1, PlexM1, modify_file_path(PlexE1), <<"data", "tv", "x.mkv">>}

\* the loop over plex_library_folders: the first folder found in the path is
\* replaced by nas_library_folders[j] and the loop ends; an index past the
\* end of nas_library_folders raises IndexError
RECURSIVE replace_first_folder_of(_, _, _, _)
replace_first_folder_of(p, j, plex_folders, nas_folders) ==
    IF j > Len(plex_folders) THEN [raised |-> FALSE, path |-> p]
    ELSE IF \E k \in 1..Len(p) : p[k] = plex_folders[j]
         THEN IF j > Len(nas_folders)
              THEN [raised |-> TRUE, path |-> p]
              ELSE [raised |-> FALSE, path |-> replace_all(p, plex_folders[j], nas_folders[j])]
         ELSE replace_first_folder_of(p, j + 1, plex_folders, nas_folders)

\* one round of the loop of modify_file_paths
modify_file_path_of(file_path, plex_src, real_src, plex_folders, nas_folders) ==
    IF ~startswith(file_path, plex_src) THEN [raised |-> FALSE, path |-> file_path]
    ELSE replace_first_folder_of(replace1(file_path, plex_src, real_src), 1,
                                 plex_folders, nas_folders)

\* FilePathModifier.modify_file_paths with the given tables: the list it
\* returns, or the exception that ends it
modify_file_paths_of(files, plex_src, real_src, plex_folders, nas_folders) ==
    LET each == [k \in 1..Len(files) |->
                    modify_file_path_of(files[k], plex_src, real_src, plex_folders, nas_folders)]
    IN  IF \E k \in 1..Len(files) : each[k].raised
        THEN [state |-> "raised", result |-> <<>>]
        ELSE [state |-> "returned", result |-> [k \in 1..Len(files) |-> each[k].path]]

InitModify ==
    /\ disk = {}
    /\ ledger_present = FALSE
    /\ ledger = <<>>
    /\ pc = "idle"
    /\ runs = 0
    /\ NoRun
    /\ disk0 = disk
    /\ ledger0 = <<ledger_present, ledger>>
    /\ SnapshotIdle
    /\ CleanupIdle
    /\ exit_status = "none"
    /\ shortfalls = {}
    /\ crashed = NoCrash
    /\ phase_log = <<>>
    /\ \E roots \in RootChoices :
          modify_call \in [plex_source : {roots[1]}, real_source : {roots[2]},
                           plex_folders : PlexFolderTables, nas_folders : NasFolderTables,
                           files : UNION {[1..n -> ModifyInputs] : n \in 0..MaxModifyList},
                           state : {"called"}, result : {<<>>},
                           again : {[state |-> "none", result |-> <<>>]}]
    /\ watched_snap = AbsentSnapshot
    /\ last_fetch = NoFetch
    /\ paths_call = NoPaths
    /\ config_state = NoFirstStart

\* the call returns or raises
ModifyFilePaths ==
    /\ modify_call.state = "called"
    /\ LET r == modify_file_paths_of(modify_call.files, modify_call.plex_source,
                                     modify_call.real_source, modify_call.plex_folders,
                                     modify_call.nas_folders)
       IN modify_call' = [modify_call EXCEPT !.state = r.state, !.result = r.result]
    /\ UNCHANGED <<env_vars, pc, runs, run_vars, reconcile_vars, pool_vars, mkdirs, moved,
                   snapshot_vars, cleanup_vars, exit_vars, crashed, phase_log,
                   watched_snap, last_fetch, paths_call, config_state>>

\* PlexCacheApp._process_media translates the collected paths, which were
\* translated once already, a second time
ModifyFilePathsAgain ==
    /\ modify_call.state = "returned"
    /\ modify_call.again.state = "none"
    /\ modify_call' = [modify_call EXCEPT
                          !.again = modify_file_paths_of(modify_call.result,
                                        modify_call.plex_source, modify_call.real_source,
                                        modify_call.plex_folders, modify_call.nas_folders)]
    /\ UNCHANGED <<env_vars, pc, runs, run_vars, reconcile_vars, pool_vars, mkdirs, moved,
                   snapshot_vars, cleanup_vars, exit_vars, crashed, phase_log,
                   watched_snap, last_fetch, paths_call, config_state>>

NextModify == ModifyFilePaths \/ ModifyFilePathsAgain

SpecModify == InitModify /\ [][NextModify]_vars

\* C24: modify_file_paths never fails, whatever the paths and the folder
\* tables; it returns one path for each input path, in the order of the
\* input, and a path that does not start with the source root unchanged.
C24_ModifyIsTotal ==
    modify_call.state # "called" =>
        /\ modify_call.state = "returned"
        /\ Len(modify_call.result) = Len(modify_call.files)
        /\ \A k \in 1..Len(modify_call.files) :
              ~startswith(modify_call.files[k], modify_call.plex_source)
                  => modify_call.result[k] = modify_call.files[k]

\* C35: translating a translated list again returns it unchanged, whatever
\* the roots and the folder tables.
C35_ModifyIsIdempotent ==
    modify_call.again.state # "none" =>
        /\ modify_call.again.state = "returned"
        /\ modify_call.again.result = modify_call.result

-----------------------------------------------------------------------------
\* The refresh of a snapshot: _process_watchlist or _process_watched_media
\* over a snapshot file left by an earlier run, with what the media server
\* returns now.

\* a path of a library that is not below the source root
OutsidePath == <<"data", "tv", "x.mkv">>

\* what the media server returns as watched
FetchedWatchedChoices == SUBSET {PlexE1, OutsidePath}

\* the watched snapshots earlier runs can have left
WatchedSnapshotFiles ==
    {AbsentSnapshot}
        \cup [kind : {"dict", "list"},
              media : {ToSet(modify_file_paths(SetToSeq(fw))) : fw \in FetchedWatchedChoices},
              old : BOOLEAN]

\* PlexCacheApp._process_watched_media: the list it leaves in media_to_array,
\* the snapshot file it leaves and the upstream fetches it made.  outcome:
\* get_watched_media returned ("ok") or raised ("raises")
_process_watched_media(f, skip, debug, outcome, fetched_watched) ==
    LET l == load_media_from_cache(f)
        fetched_media == SetToSeq(fetched_watched)
        appended == SelectSeq(fetched_media, LAMBDA file_path : file_path \notin l.media)
        modified == modify_file_paths(appended)
        media_to_array == modified \o get_media_subtitles(modified)
    IN  IF l.raised
        THEN [media_to_array |-> <<>>, file |-> l.file, fetches |-> <<>>]
        ELSE IF _is_cache_expired(l.file, skip, debug)
             THEN IF outcome = "raises"
                  THEN [media_to_array |-> <<>>, file |-> l.file, fetches |-> <<"raises">>]
                  ELSE [media_to_array |-> media_to_array,
                        file |-> save_media_to_cache(ToSet(media_to_array)),
                        fetches |-> <<"ok">>]
             ELSE [media_to_array |-> SetToSeq(l.media), file |-> l.file, fetches |-> <<>>]

InitRefresh ==
    /\ disk = RealFiles
    /\ ledger_present = FALSE
    /\ ledger = <<>>
    /\ pc \in {"watchlist", "watched"}
    /\ runs = 1
    /\ self_debug \in BOOLEAN
    /\ self_files_to_skip = {}
    /\ self_ondeck_items = {}
    /\ watchlist_items = {}
    /\ watched_items = <<>>
    /\ self_media_to_cache = <<>>
    /\ self_media_to_array = <<>>
    /\ last_move_back = <<>>
    /\ last_to_remove = <<>>
    /\ NoPass
    /\ disk0 = disk
    /\ ledger0 = <<ledger_present, ledger>>
    /\ snap_file \in (IF pc = "watchlist" THEN SnapshotFiles ELSE {AbsentSnapshot})
    /\ watched_snap \in (IF pc = "watched" THEN WatchedSnapshotFiles ELSE {AbsentSnapshot})
    /\ snap0 = (IF pc = "watchlist" THEN snap_file ELSE watched_snap)
    /\ skip_cache \in BOOLEAN
    /\ connected \in (IF pc = "watchlist" THEN BOOLEAN ELSE {TRUE})
    /\ fetches = <<>>
    /\ ledger_readable = TRUE
    /\ CleanupIdle
    /\ exit_status = "none"
    /\ shortfalls = {}
    /\ crashed = NoCrash
    /\ phase_log = <<>>
    /\ modify_call = NoCall
    /\ last_fetch = NoFetch
    /\ paths_call = NoPaths
    /\ config_state = NoFirstStart

\* the watched part of PlexCacheApp._process_media
ProcessWatchedMedia(outcome, fetched_watched) ==
    /\ pc = "watched"
    /\ watched_move
    /\ LET w == _process_watched_media(watched_snap, skip_cache, self_debug, outcome,
                                       fetched_watched)
       IN /\ watched_items' = w.media_to_array
          /\ self_media_to_array' = w.media_to_array
          /\ watched_snap' = w.file
          /\ fetches' = w.fetches
          /\ last_fetch' = IF w.fetches = <<"ok">>
                           THEN [kind |-> "watched", media |-> fetched_watched]
                           ELSE last_fetch
    /\ pc' = "reconcile"
    /\ UNCHANGED <<env_vars, runs, self_debug, self_files_to_skip, self_ondeck_items,
                   watchlist_items, self_media_to_cache, disk0, ledger0, reconcile_vars,
                   pool_vars, mkdirs, moved, snap_file, snap0, skip_cache, connected,
                   ledger_readable, cleanup_vars, exit_vars, crashed, phase_log,
                   modify_call, paths_call, config_state>>

NextRefresh ==
    \/ \E unlink_ok \in BOOLEAN, outcome \in {"ok", "raises"},
          fetched_watchlist \in WatchlistChoices :
          ProcessWatchlist(unlink_ok, outcome, fetched_watchlist)
    \/ \E outcome \in {"ok", "raises"}, fetched_watched \in FetchedWatchedChoices :
          ProcessWatchedMedia(outcome, fetched_watched)

SpecRefresh == InitRefresh /\ [][NextRefresh]_vars

\* what the refresh of the watched snapshot produces when no snapshot exists
FreshWatched == _process_watched_media(AbsentSnapshot, skip_cache, self_debug, "ok", last_fetch.media)

\* C25: a refresh that fetched anew produces and persists the paths the
\* fetch alone determines, those it would produce with no snapshot at all,
\* whatever the snapshot it found held.
C25_RefreshDependsOnlyOnFetch ==
    /\ last_fetch.kind = "watchlist" =>
          /\ watchlist_items = watchlist_result_set(last_fetch.media)
          /\ snap_file = save_media_to_cache(watchlist_items)
    /\ last_fetch.kind = "watched" =>
          /\ watched_items = FreshWatched.media_to_array
          /\ watched_snap = FreshWatched.file

-----------------------------------------------------------------------------
\* the run has come to its end: the process exited or reached _finish
RunEnded == pc \in {"exited", "finish"}

\* C26: a run whose array batch was larger than the free space of the array
\* gives up the array moves only; it ends after its cache pass was filtered
\* and space-checked.
C26_ArrayShortfallKeepsCachePass ==
    ("array" \in shortfalls /\ RunEnded) => PhaseAt("cache") # {}

-----------------------------------------------------------------------------
\* the position of the first occurrence of a path in a list
FirstIndex(list, x) == CHOOSE k \in 1..Len(list) : list[k] = x /\ \A j \in 1..(k - 1) : list[j] # x

\* C27: in either direction the list filter_files returns holds no path of
\* the skip set and no path twice, holds only paths of its input, and holds
\* them in the order of their first occurrences in the input.
C27_FilteredListIsClean ==
    pc = "filtered" =>
        /\ \A k \in 1..Len(pass_files) : pass_files[k] \notin self_files_to_skip
        /\ \A i, j \in 1..Len(pass_files) : i # j => pass_files[i] # pass_files[j]
        /\ ToSet(pass_files) \subseteq ToSet(FilterInput)
        /\ \A i, j \in 1..Len(pass_files) :
              i < j => FirstIndex(FilterInput, pass_files[i]) < FirstIndex(FilterInput, pass_files[j])

\* a list with a skipped path in it was filtered and another path of it was
\* returned
C27_Witness ==
    /\ pc = "filtered"
    /\ pass_files # <<>>
    /\ ToSet(FilterInput) \cap self_files_to_skip # {}

\* C28: toward the array, filter_files returns only files that were present
\* in the cache tier.
C28_ArrayListOnlyFromCache ==
    (pc = "filtered" /\ pass_dest = "array") =>
        \A f \in ToSet(pass_files) : CachePathOf(f) \in disk0

-----------------------------------------------------------------------------
\* the step changes the exclude file
LedgerChanged == <<ledger_present, ledger>>' # <<ledger_present, ledger>>

\* the step is the append of one line by a worker of the cache pass whose
\* move succeeded
AppendedByCacheMove ==
    /\ pc = "moving"
    /\ pass_dest = "cache"
    /\ ledger_present'
    /\ \E w \in workers :
          /\ w.stage = "open"
          /\ <<"cache", w.cmd>> \in moved
          /\ ledger' = Append(ledger, w.cmd.cache_file_name)

\* the step is the rewrite of the file by the reconciliation
RewrittenByPrune ==
    /\ pc = "reconcile"
    /\ ledger_present /\ ledger_present'
    /\ ledger' = SelectSeq(read_exclude_lines(ledger), LAMBDA l : l \notin ToSet(last_to_remove'))

\* C30: the exclude file changes only when a worker that moved a file to the
\* cache appends its line and when the reconciliation rewrites the file;
\* filtering, the moves toward the array and the end of the run leave it as
\* it is.
C30_LedgerWriters == [][LedgerChanged => (AppendedByCacheMove \/ RewrittenByPrune)]_vars

\* a run whose reconciliation rewrote the exclude file has moved a file to
\* the array
C30_Witness ==
    /\ last_to_remove # <<>>
    /\ ledger0[2] # ledger
    /\ \E m \in moved : m[1] = "array"

-----------------------------------------------------------------------------
\* FileFilter.filter_files over paths of every shape: a file of a library
\* folder, a file directly in the array root, and a file of a library that
\* is not below the array root (modify_file_paths passes such a path on).

\* a file directly in the array root
RootFile == real_source \o <<"x.mkv">>

FilterAnyInputs == {modify_file_path(PlexM1), RootFile, OutsidePath}

FilterAnyLists == UNION {[1..k -> FilterAnyInputs] : k \in 0..MaxFilterList}

InitFilterAny ==
    /\ disk \in SUBSET (FilterAnyInputs \cup {_get_cache_paths(f)[2] : f \in FilterAnyInputs})
    /\ ledger_present = FALSE
    /\ ledger = <<>>
    /\ pc = "filter"
    /\ runs = 1
    /\ self_debug = FALSE
    /\ self_files_to_skip = {}
    /\ self_ondeck_items = {}
    /\ watchlist_items = {}
    /\ watched_items = <<>>
    /\ self_media_to_cache \in FilterAnyLists
    /\ pass_dest \in {"array", "cache"}
    /\ self_media_to_array \in (IF pass_dest = "array" THEN FilterAnyLists ELSE {<<>>})
    /\ last_move_back = <<>>
    /\ last_to_remove = <<>>
    /\ pass_files = <<>>
    /\ queue = <<>>
    /\ workers = {}
    /\ errors = 0
    /\ after_pass = "none"
    /\ pass_log = <<>>
    /\ mkdirs = {}
    /\ moved = {}
    /\ disk0 = disk
    /\ ledger0 = <<ledger_present, ledger>>
    /\ SnapshotIdle
    /\ CleanupIdle
    /\ ExitIdle

SpecFilterAny == InitFilterAny /\ [][NextFilter]_vars

\* the files the filter deleted
DeletedByFilter == disk0 \ disk

\* C31: every file filter_files deleted was one of two copies of a file of
\* its input, at the cache path and at the array path of that file, and the
\* other copy is still there.
C31_FilterKeepsACopy ==
    pc = "filtered" =>
        \A p \in DeletedByFilter :
            \E f \in ToSet(FilterInput) :
                \/ p = CachePathOf(f) /\ ArrayCopyOf(f) # p /\ ArrayCopyOf(f) \in disk
                \/ p = ArrayCopyOf(f) /\ CachePathOf(f) # p /\ CachePathOf(f) \in disk

-----------------------------------------------------------------------------
\* the lines the exclude file held when the run began and holds no longer
RemovedEntries == {l \in ToSet(ledger0[2]) : l \notin ToSet(ledger)}

\* C32: at the end of a run, every entry the run removed from the exclude
\* file, whose file was in the cache tier, is the entry of a file the run
\* has moved to the array.
C32_RemovedOnlyIfMovedBack ==
    RunEnded =>
        \A l \in RemovedEntries :
            normpath(l) \in disk0 =>
                \E m \in moved : m[1] = "array" /\ m[2].cache_file_name = l

-----------------------------------------------------------------------------
\* the run's cache move list, as normalized paths
CacheMoveList == {normpath(f) : f \in ToSet(self_media_to_cache)}

\* C33: in a run, a file that was moved to the array is not on the cache
\* move list of the run, and no file is moved in both directions.
C33_NoFileMovedBothWays ==
    /\ \A a \in MovedToArray : ArrayPathOf(a) \notin CacheMoveList
    /\ \A a \in MovedToArray, c \in MovedToCache : a.cache_file_name # c.cache_file_name

\* a run has moved one file to the array and another to the cache
C33_Witness ==
    /\ MovedToArray # {}
    /\ MovedToCache # {}

-----------------------------------------------------------------------------
\* The cache path of one file under the array root, as the filter computes
\* it, as the mover computes it and writes it to the exclude file, and the
\* array path the reconciliation makes of the line it reads back.

MaxPathDepth == 3

PathFolders == {"TV", "ShowX", "user"}

\* the files under the array root, up to MaxPathDepth folders down
PathInputs ==
    {real_source \o d \o <<n>> :
        d \in UNION {[1..k -> PathFolders] : k \in 0..MaxPathDepth}, n \in {"x.mkv", "y.srt"}}

InitPaths ==
    /\ disk = {}
    /\ ledger_present = FALSE
    /\ ledger = <<>>
    /\ pc = "idle"
    /\ runs = 0
    /\ NoRun
    /\ disk0 = disk
    /\ ledger0 = <<ledger_present, ledger>>
    /\ SnapshotIdle
    /\ CleanupIdle
    /\ exit_status = "none"
    /\ shortfalls = {}
    /\ crashed = NoCrash
    /\ phase_log = <<>>
    /\ modify_call = NoCall
    /\ watched_snap = AbsentSnapshot
    /\ last_fetch = NoFetch
    /\ paths_call \in [file : PathInputs, state : {"called"}, filter_name : {<<>>},
                       mover_name : {<<>>}, ledger_line : {<<>>}, array_file : {<<>>}]
    /\ config_state = NoFirstStart

\* FileFilter._get_cache_paths and FileMover._get_paths on the file, the line
\* _move_file writes with the mover's name and the reconciliation reads
\* back, and the array path get_files_to_move_back_to_array makes of it
GetCachePaths ==
    /\ paths_call.state = "called"
    /\ LET cache_file_name == _get_paths(paths_call.file).cache_file_name
           cache_file == read_exclude_lines(<<cache_file_name>>)[1]
       IN paths_call' = [paths_call EXCEPT
                            !.state = "returned",
                            !.filter_name = _get_cache_paths(paths_call.file)[2],
                            !.mover_name = cache_file_name,
                            !.ledger_line = cache_file,
                            !.array_file = replace1(cache_file, cache_dir, real_source)]
    /\ UNCHANGED <<env_vars, pc, runs, run_vars, reconcile_vars, pool_vars, mkdirs, moved,
                   snapshot_vars, cleanup_vars, exit_vars, crashed, phase_log,
                   modify_call, watched_snap, last_fetch, config_state>>

NextPaths == GetCachePaths

SpecPaths == InitPaths /\ [][NextPaths]_vars

\* C34: for a file under the array root the filter and the mover name the
\* same file of the cache tier, the line of the exclude file names it too,
\* and the reconciliation maps the line back to the file.
C34_CachePathsAgree ==
    paths_call.state = "returned" =>
        /\ normpath(paths_call.filter_name) = normpath(paths_call.mover_name)
        /\ normpath(paths_call.ledger_line) = normpath(paths_call.mover_name)
        /\ normpath(paths_call.array_file) = normpath(paths_call.file)

-----------------------------------------------------------------------------
\* the list filter_files returns to the pass toward d that is about to start
FilteredFor(d) ==
    filter_files(IF d = "array" THEN self_media_to_array ELSE self_media_to_cache,
                 d, self_media_to_cache, self_files_to_skip, disk).media_to

\* the step is the pass toward d, and it has met no lack of space
PassStepWithSpace(d) ==
    /\ pc = (IF d = "array" THEN "array_pass" ELSE "cache_pass")
    /\ pc' # pc
    /\ d \notin shortfalls'

\* the step hands the list to move_media_files
MoverInvokedWith(d, files) ==
    /\ Len(pass_log') = Len(pass_log) + 1
    /\ pass_log'[Len(pass_log')].dest = d
    /\ pass_files' = files

\* C36: a pass whose filtered list is not empty and whose destination has
\* room hands that list to move_media_files, whatever the total size
\* reported for it.
C36_NonEmptyListIsMoved ==
    [][\A d \in {"array", "cache"} :
          (PassStepWithSpace(d) /\ FilteredFor(d) # <<>>) => MoverInvokedWith(d, FilteredFor(d))]_vars

-----------------------------------------------------------------------------
\* the files of the real namespace that are open in a playback session
PlayingFiles == {normpath(modify_file_path(session_file)) : session_file \in self_files_to_skip}

\* the move commands of the passes of the run
RunCommands == UNION {ToSet(pass_log[k].commands) : k \in 1..Len(pass_log)}

\* the file of the real namespace a command moves
FileOfCommand(c) == normpath(replace1(c.cache_file_name, cache_dir, real_source))

\* C37: no move command of a run, in either direction, moves a file that
\* was open in a playback session when the run checked the sessions.
C37_PlayingFileNotMoved ==
    \A c \in RunCommands : FileOfCommand(c) \notin PlayingFiles

-----------------------------------------------------------------------------
\* The runs of an installation whose settings file may still have firststart
\* set: the first run loads it, and _save_updated_config writes the file
\* back without it.

InitFirstStart ==
    /\ disk = {array_file_of(f) : f \in RealFiles}
    /\ ledger_present = FALSE
    /\ ledger = <<>>
    /\ pc = "idle"
    /\ runs = 0
    /\ disk0 = disk
    /\ ledger0 = <<ledger_present, ledger>>
    /\ SnapshotIdle
    /\ CleanupIdle
    /\ exit_status = "none"
    /\ shortfalls = {}
    /\ crashed = NoCrash
    /\ phase_log = <<>>
    /\ modify_call = NoCall
    /\ watched_snap = AbsentSnapshot
    /\ last_fetch = NoFetch
    /\ paths_call = NoPaths
    /\ config_state \in [firststart : BOOLEAN, debug : {FALSE}]
    /\ NoRun

SpecFirstStart == InitFirstStart /\ [][Next]_vars

\* C39: a run that found firststart set in the settings file is a dry run:
\* it moves no file and writes no line to the exclude file.
C39_FirstStartIsDryRun ==
    (config_state.debug /\ pc # "idle") =>
        /\ moved = {}
        /\ <<ledger_present, ledger>> = ledger0

-----------------------------------------------------------------------------
\* C38: the sweep removes only directories strictly below a subdirectory it
\* walked: never the cache directory, never a walked subdirectory, even an
\* empty one, and never a directory that holds a file.
C38_OnlyBelowLibraryFolders ==
    cleanup_pc = "cleaned" =>
        /\ <<>> \notin DirsRemoved
        /\ DirsRemoved \cap DirsCleaned = {}
        /\ \A d \in DirsRemoved : Len(d) >= 2 /\ BelowCleaned(d)
        /\ DirsRemoved \cap dir_files = {}
        /\ dir_files \subseteq dirs

\* the sweep has emptied a walked subdirectory and left it in place
C38_Witness ==
    /\ cleanup_pc = "cleaned"
    /\ DirsRemoved # {}
    /\ \E c \in DirsCleaned : c \in dirs /\ is_empty_dir(c, dirs, dir_files)

=============================================================================
